---- MODULE Spec2Model ----
(***************************************************************************)
(* A model of the request/validate/execute/decode operations of the        *)
(* edgegrid client (packages appsec, papi, ivm) and of its structured      *)
(* error types.                                                            *)
(*                                                                         *)
(* Go error values are modelled as chains: a sequence of nodes, outermost  *)
(* first, in which node i wraps node i+1 (fmt.Errorf with one %w, as the    *)
(* source builds them).  Texts are sequences of tokens.                    *)
(***************************************************************************)
EXTENDS Integers, Sequences, FiniteSets, TLC

VARIABLES
    client,     \* the client struct: its settings, shared by every call
    calls,      \* per calling goroutine, the operation call it is in
    env,        \* the environment: which calls the application makes and
                \* which replies the transport can give ("full" or "small")
    cmp,        \* an error comparison: the receiver, the target, the verdict
    dec         \* an error decoding: the response, the decoder, the error

vars == <<client, calls, env, cmp, dec>>

(***************************************************************************)
(* Bounds of the model.                                                    *)
(***************************************************************************)
\* Integer identifiers (ConfigID, Version, CreateFromVersion) range over -1..MaxID.
MaxID == 1
\* The remaining member of an error ranges over nil and 0..MaxRemaining.
MaxRemaining == 1

(***************************************************************************)
(* HTTP status codes (net/http).                                           *)
(***************************************************************************)
StatusOK == 200
StatusCreated == 201
StatusNoContent == 204
StatusForbidden == 403
StatusNotFound == 404
StatusTooManyRequests == 429
StatusInternalServerError == 500

Statuses ==
    {StatusOK, StatusCreated, StatusNoContent, StatusForbidden, StatusNotFound,
     StatusTooManyRequests, StatusInternalServerError}

(***************************************************************************)
(* Fields of type pointer to int: a nil pointer, or a pointer to a value.                    *)
(***************************************************************************)
NilInt == [set |-> FALSE, v |-> 0]
PtrTo(n) == [set |-> TRUE, v |-> n]

(***************************************************************************)
(* papi.Error and ivm.Error, the structured error types.                   *)
(***************************************************************************)
SBDType == "https://problems.luna.akamaiapis.net/papi/v0/property-version-hostname/default-cert-provisioning-unavailable"
DefaultCertsLimitKey == "DEFAULT_CERTS_PER_CONTRACT"

\* The zero value of papi.Error (var e Error).
ZeroError ==
    [Type |-> "", Title |-> "", Detail |-> "", Instance |-> "",
     BehaviorName |-> "", ErrorLocation |-> "", StatusCode |-> 0,
     Errors |-> "", Warnings |-> "", LimitKey |-> "",
     Limit |-> NilInt, Remaining |-> NilInt]

\* The zero value of ivm.Error.
ZeroIvmError ==
    [Type |-> "", Title |-> "", Detail |-> "", Instance |-> "", Status |-> 0,
     ProblemID |-> "", RequestID |-> "", IllegalValue |-> "", ParameterName |-> ""]

(***************************************************************************)
(* Error chains.  A node is a sentinel (errors.New), a wrapper             *)
(* (fmt.wrapError, whose text is msg), a papi.Error, an ivm.Error, or an   *)
(* error of another package.  addr is the identity of a pointer: 0 is a    *)
(* value freshly allocated by the code, other numbers are values the       *)
(* caller holds.                                                           *)
(***************************************************************************)
Sentinel(n) ==
    <<[kind |-> "sentinel", name |-> n, msg |-> <<n>>, e |-> ZeroError,
       i |-> ZeroIvmError, addr |-> 0]>>

PapiErr(e, a) ==
    <<[kind |-> "papi", name |-> "", msg |-> <<>>, e |-> e,
       i |-> ZeroIvmError, addr |-> a]>>

IvmErr(i, a) ==
    <<[kind |-> "ivm", name |-> "", msg |-> <<>>, e |-> ZeroError,
       i |-> i, addr |-> a]>>

\* An error of a package that is not modelled further (validation.Errors,
\* url.Error, the transport's errors, session.APIError).
OtherErr(n) ==
    <<[kind |-> "other", name |-> n, msg |-> <<n>>, e |-> ZeroError,
       i |-> ZeroIvmError, addr |-> 0]>>

NoError == <<>>

\* Sentinels declared outside the files at hand; each package has its own
\* ErrStructValidation.
ErrStructValidation == Sentinel("papi.ErrStructValidation")
appsecErrStructValidation == Sentinel("appsec.ErrStructValidation")
ErrNotFound == Sentinel("session.ErrNotFound")
ErrSBDNotEnabled == Sentinel("papi.ErrSBDNotEnabled")
ErrDefaultCertLimitReached == Sentinel("papi.ErrDefaultCertLimitReached")
ErrCreateIncludeVersion == Sentinel("create an include version")
ErrGetIncludeVersion == Sentinel("get an include version")
ErrListIncludeVersions == Sentinel("list include versions")
ErrListIncludeVersionAvailableCriteria == Sentinel("list include version available criteria")
ErrListIncludeVersionAvailableBehaviors == Sentinel("list include version available behaviors")

(***************************************************************************)
(* Error.Error of papi: json.MarshalIndent of the value.  The rendering    *)
(* holds a member for every field that omitempty does not drop: type and   *)
(* detail always, the others when they are not the zero value (a nil       *)
(* pointer for limit and remaining).                                       *)
(***************************************************************************)
OmitEmptyStr(s) == [present |-> s # "", v |-> s]
OmitEmptyInt(n) == [present |-> n # 0, v |-> n]
OmitNil(p) == [present |-> p.set, v |-> IF p.set THEN p.v ELSE 0]

ErrorText(e) ==
    [type |-> e.Type,
     title |-> OmitEmptyStr(e.Title),
     detail |-> e.Detail,
     instance |-> OmitEmptyStr(e.Instance),
     behaviorName |-> OmitEmptyStr(e.BehaviorName),
     errorLocation |-> OmitEmptyStr(e.ErrorLocation),
     statusCode |-> OmitEmptyInt(e.StatusCode),
     errors |-> OmitEmptyStr(e.Errors),
     warnings |-> OmitEmptyStr(e.Warnings),
     limitKey |-> OmitEmptyStr(e.LimitKey),
     limit |-> OmitNil(e.Limit),
     remaining |-> OmitNil(e.Remaining)]

\* Error.Error of ivm: every member is omitempty.
IvmErrorText(i) ==
    [type |-> OmitEmptyStr(i.Type),
     title |-> OmitEmptyStr(i.Title),
     detail |-> OmitEmptyStr(i.Detail),
     instance |-> OmitEmptyStr(i.Instance),
     status |-> OmitEmptyInt(i.Status),
     problemId |-> OmitEmptyStr(i.ProblemID),
     requestId |-> OmitEmptyStr(i.RequestID),
     illegalValue |-> OmitEmptyStr(i.IllegalValue),
     parameterName |-> OmitEmptyStr(i.ParameterName)]

isErrSBDNotEnabledTypeOnly(e) ==
    e.Type = SBDType

isErrSBDNotEnabled(e) ==
    e.StatusCode = StatusForbidden /\ e.Type = SBDType

isErrDefaultCertLimitReachedNilAsZero(e) ==
    /\ e.StatusCode = StatusTooManyRequests
    /\ e.LimitKey = DefaultCertsLimitKey
    /\ e.Remaining.v = 0

isErrDefaultCertLimitReached(e) ==
    /\ e.StatusCode = StatusTooManyRequests
    /\ e.LimitKey = DefaultCertsLimitKey
    /\ e.Remaining.set
    /\ e.Remaining.v = 0

(***************************************************************************)
(* errors.Is, errors.As and the Is methods of the two Error types.         *)
(***************************************************************************)
\* err == target of errors.Is: sentinels are equal when they are the same
\* variable, pointers to Error values when they are the same pointer; a
\* wrapper is a fresh allocation and equals nothing the caller holds.
SameError(a, b) ==
    \/ a.kind = "sentinel" /\ b.kind = "sentinel" /\ a.name = b.name
    \/ a.kind \in {"papi", "ivm"} /\ a.kind = b.kind /\ a.addr = b.addr /\ a.addr # 0

\* errors.As(target, &t): the first node of the chain of the wanted type,
\* as a chain of its own; NoError when there is none.
As(target, kind) ==
    IF \E k \in 1..Len(target) : target[k].kind = kind
    THEN LET k == CHOOSE k \in 1..Len(target) :
                    /\ target[k].kind = kind
                    /\ \A j \in 1..(k - 1) : target[j].kind # kind
         IN  <<target[k]>>
    ELSE NoError

RECURSIVE ErrorsIs(_, _)
RECURSIVE papiIs(_, _)
RECURSIVE ivmIs(_, _)

\* Error.Is of papi, with the tests it makes, in order.
papiIs(n, target) ==
    IF ErrorsIs(target, ErrSBDNotEnabled)
    THEN [result |-> isErrSBDNotEnabled(n.e), tests |-> <<"sbd">>]
    ELSE IF ErrorsIs(target, ErrDefaultCertLimitReached)
    THEN [result |-> isErrDefaultCertLimitReached(n.e), tests |-> <<"sbd", "certlimit">>]
    ELSE LET t == As(target, "papi")
         IN  IF t = NoError
             THEN [result |-> FALSE, tests |-> <<"sbd", "certlimit", "as">>]
             ELSE IF SameError(n, t[1])
             THEN [result |-> TRUE, tests |-> <<"sbd", "certlimit", "as", "pointer">>]
             ELSE IF n.e.StatusCode # t[1].e.StatusCode
             THEN [result |-> FALSE,
                   tests |-> <<"sbd", "certlimit", "as", "pointer", "status">>]
             ELSE [result |-> ErrorText(n.e) = ErrorText(t[1].e),
                   tests |-> <<"sbd", "certlimit", "as", "pointer", "status", "text">>]

\* An Is of ivm that takes a target without a status for a pattern that
\* every error matches.
ivmIsZeroStatusMatchesAll(n, target) ==
    LET t == As(target, "ivm")
    IN  IF t = NoError THEN FALSE
        ELSE IF SameError(n, t[1]) THEN TRUE
        ELSE IF t[1].i.Status = 0 THEN TRUE
        ELSE IF n.i.Status # t[1].i.Status THEN FALSE
        ELSE IvmErrorText(n.i) = IvmErrorText(t[1].i)

\* An Is of ivm that stops at the comparison of the statuses.
ivmIsStatusOnly(n, target) ==
    LET t == As(target, "ivm")
    IN  IF t = NoError THEN FALSE
        ELSE IF SameError(n, t[1]) THEN TRUE
        ELSE n.i.Status = t[1].i.Status

\* Error.Is of ivm.
ivmIs(n, target) ==
    LET t == As(target, "ivm")
    IN  IF t = NoError THEN FALSE
        ELSE IF SameError(n, t[1]) THEN TRUE
        ELSE IF n.i.Status # t[1].i.Status THEN FALSE
        ELSE IvmErrorText(n.i) = IvmErrorText(t[1].i)

\* errors.Is(err, target): walks err's chain; a node matches when it equals
\* target or when its Is method says so.
ErrorsIs(err, target) ==
    /\ target # NoError
    /\ \E k \in 1..Len(err) :
          \/ SameError(err[k], target[1])
          \/ err[k].kind = "papi" /\ papiIs(err[k], target).result
          \/ err[k].kind = "ivm" /\ ivmIs(err[k], target)

\* fmt.Errorf with one %w verb: a wrapper whose text is the formatted
\* message and which unwraps to the %w operand; operands of %s contribute
\* their text only.
Errorf(msg, wrapped) ==
    <<[kind |-> "wrap", name |-> "", msg |-> msg, e |-> ZeroError,
       i |-> ZeroIvmError, addr |-> 0]>> \o wrapped

\* err.Error() as a token: the text of the outermost node.
Text(err) ==
    IF err = NoError THEN "<nil>"
    ELSE IF err[1].kind \in {"papi", "ivm"} THEN "API error"
    ELSE IF err[1].kind = "wrap" THEN "wrapped"
    ELSE err[1].name

(***************************************************************************)
(* HTTP responses.  A body is unreadable (ioutil.ReadAll fails), text that *)
(* is not JSON, or a JSON object; a string member that is absent decodes   *)
(* like one that is empty, so only the numeric members say whether they    *)
(* are present.  bad names a member that holds a JSON value of the wrong   *)
(* type ("" when there is none); raw is the body's text.                   *)
(***************************************************************************)
\* A link as net/url sees it: the pieces strings.Split(Path, "/") gives and
\* the query.  The empty string has the one piece "".
Link(segments, query) == [segments |-> segments, query |-> query]
NoLink == Link(<<"">>, "")

Body(kind, raw, type, title, detail, instance, status, statusCode, limitKey, remaining, bad) ==
    [kind |-> kind, raw |-> raw, type |-> type, title |-> title, detail |-> detail,
     instance |-> instance, status |-> status, statusCode |-> statusCode,
     limitKey |-> limitKey, remaining |-> remaining, bad |-> bad,
     activationLink |-> NoLink]

UnreadableBody == Body("unreadable", "", "", "", "", "", NilInt, NilInt, "", NilInt, "")
TextBody == Body("text", "<html>Bad Gateway</html>", "", "", "", "", NilInt, NilInt, "", NilInt, "")
EmptyObjectBody == Body("json", "{}", "", "", "", "", NilInt, NilInt, "", NilInt, "")

\* A problem-details object {type, title, detail, status}.
ProblemBody(type, title, detail, instance, status) ==
    Body("json", "{problem}", type, title, detail, instance, status, NilInt, "", NilInt, "")

ReadErrorText == "unexpected EOF"
SyntaxErrorText == "invalid character"
TypeErrorText == "cannot unmarshal string into Go struct field of type int"

\* A json.Unmarshal for papi.Error that reports no error for a body that
\* is not JSON.
UnmarshalPapiNoSyntaxError(body, e) ==
    IF body.kind # "json"
    THEN [err |-> "", e |-> e]
    ELSE [err |-> IF body.bad = "statusCode" THEN TypeErrorText ELSE "",
          e |-> [e EXCEPT !.Type = body.type,
                          !.Title = body.title,
                          !.Detail = body.detail,
                          !.Instance = body.instance,
                          !.StatusCode = IF body.statusCode.set /\ body.bad # "statusCode"
                                         THEN body.statusCode.v ELSE @,
                          !.LimitKey = body.limitKey,
                          !.Remaining = body.remaining]]

\* json.Unmarshal(body, &e) for papi.Error: a syntax error leaves e as it
\* was; a member of the wrong type is reported after the other members
\* have been stored.  The member named status is unknown to papi.Error.
UnmarshalPapi(body, e) ==
    IF body.kind # "json"
    THEN [err |-> SyntaxErrorText, e |-> e]
    ELSE [err |-> IF body.bad = "statusCode" THEN TypeErrorText ELSE "",
          e |-> [e EXCEPT !.Type = body.type,
                          !.Title = body.title,
                          !.Detail = body.detail,
                          !.Instance = body.instance,
                          !.StatusCode = IF body.statusCode.set /\ body.bad # "statusCode"
                                         THEN body.statusCode.v ELSE @,
                          !.LimitKey = body.limitKey,
                          !.Remaining = body.remaining]]

\* json.Unmarshal(body, &e) for ivm.Error, whose numeric member is status.
UnmarshalIvm(body, i) ==
    IF body.kind # "json"
    THEN [err |-> SyntaxErrorText, i |-> i]
    ELSE [err |-> IF body.bad = "status" THEN TypeErrorText ELSE "",
          i |-> [i EXCEPT !.Type = body.type,
                          !.Title = body.title,
                          !.Detail = body.detail,
                          !.Instance = body.instance,
                          !.Status = IF body.status.set /\ body.bad # "status"
                                     THEN body.status.v ELSE @]]

(***************************************************************************)
(* The error decoders.                                                     *)
(***************************************************************************)
papiErrorKeepsBodyStatus(r) ==
    IF r.body.kind = "unreadable"
    THEN PapiErr([ZeroError EXCEPT !.StatusCode = r.StatusCode,
                                   !.Title = "Failed to read error body",
                                   !.Detail = ReadErrorText], 0)
    ELSE LET u == UnmarshalPapi(r.body, ZeroError)
         IN  IF u.err # ""
             THEN PapiErr([u.e EXCEPT !.Title = "Failed to unmarshal error body",
                                      !.Detail = u.err,
                                      !.StatusCode = r.StatusCode], 0)
             ELSE PapiErr(u.e, 0)

\* (p *papi) Error(r *http.Response) error
papiError(r) ==
    IF r.body.kind = "unreadable"
    THEN PapiErr([ZeroError EXCEPT !.StatusCode = r.StatusCode,
                                   !.Title = "Failed to read error body",
                                   !.Detail = ReadErrorText], 0)
    ELSE LET u == UnmarshalPapi(r.body, ZeroError)
             e == IF u.err # ""
                  THEN [u.e EXCEPT !.Title = "Failed to unmarshal error body",
                                   !.Detail = u.err]
                  ELSE u.e
         IN  PapiErr([e EXCEPT !.StatusCode = r.StatusCode], 0)

\* A decoder of ivm that records the HTTP status on every path.
ivmErrorAlwaysHTTPStatus(r) ==
    IF r.body.kind = "unreadable"
    THEN IvmErr([ZeroIvmError EXCEPT !.Status = r.StatusCode,
                                     !.Title = "Failed to read error body",
                                     !.Detail = ReadErrorText], 0)
    ELSE LET u == UnmarshalIvm(r.body, ZeroIvmError)
         IN  IF u.err # ""
             THEN IvmErr([u.i EXCEPT !.Title = r.body.raw,
                                     !.Status = r.StatusCode], 0)
             ELSE IvmErr([u.i EXCEPT !.Status = r.StatusCode], 0)

\* (i *ivm) Error(r *http.Response) error
ivmError(r) ==
    IF r.body.kind = "unreadable"
    THEN IvmErr([ZeroIvmError EXCEPT !.Status = r.StatusCode,
                                     !.Title = "Failed to read error body",
                                     !.Detail = ReadErrorText], 0)
    ELSE LET u == UnmarshalIvm(r.body, ZeroIvmError)
         IN  IF u.err # ""
             THEN IvmErr([u.i EXCEPT !.Title = r.body.raw,
                                     !.Status = r.StatusCode], 0)
             ELSE IvmErr(u.i, 0)

\* The decoder of package appsec and session.NewAPIError: both give a
\* structured API error of their own package for the response.
ApiErr(n, r) ==
    <<[kind |-> "api", name |-> n, msg |-> <<>>,
       e |-> [ZeroError EXCEPT !.Type = r.body.type, !.Title = r.body.title,
                               !.Detail = r.body.detail, !.StatusCode = r.StatusCode],
       i |-> ZeroIvmError, addr |-> 0]>>

appsecError(r) == ApiErr("appsec.Error", r)
NewAPIError(r) == ApiErr("session.APIError", r)

(***************************************************************************)
(* The operations.                                                         *)
(***************************************************************************)
AppsecOps ==
    {"GetConfigurationVersionClone", "CreateConfigurationVersionClone",
     "RemoveConfigurationVersionClone"}

IncludeVersionOps ==
    {"CreateIncludeVersion", "GetIncludeVersion", "ListIncludeVersions",
     "ListIncludeVersionAvailableCriteria", "ListIncludeVersionAvailableBehaviors"}

Ops == AppsecOps \cup IncludeVersionOps \cup {"SearchProperties"}

\* The sentinel of an include-version operation.
OpSentinel(op) ==
    CASE op = "CreateIncludeVersion" -> ErrCreateIncludeVersion
      [] op = "GetIncludeVersion" -> ErrGetIncludeVersion
      [] op = "ListIncludeVersions" -> ErrListIncludeVersions
      [] op = "ListIncludeVersionAvailableCriteria" -> ErrListIncludeVersionAvailableCriteria
      [] op = "ListIncludeVersionAvailableBehaviors" -> ErrListIncludeVersionAvailableBehaviors

SearchKeyEdgeHostname == "edgeHostname"
SearchKeyHostname == "hostname"
SearchKeyPropertyName == "propertyName"

(***************************************************************************)
(* Requests.  One record type holds the fields of every request struct;    *)
(* an operation reads its own fields only.                                 *)
(***************************************************************************)
NilBool == [set |-> FALSE, v |-> FALSE]
BoolPtr(b) == [set |-> TRUE, v |-> b]

ZeroRequest ==
    [ConfigID |-> 0, Version |-> 0, CreateFromVersion |-> 0,
     CreateFromVersionEtag |-> "", IncludeID |-> "", ContractID |-> "",
     GroupID |-> "", key |-> "", value |-> "",
     ActivationID |-> "", Network |-> "", Note |-> "", NotifyEmails |-> <<>>,
     AcknowledgeAllWarnings |-> FALSE, IgnoreHTTPErrors |-> NilBool]

IDs == -1..MaxID
\* An include identifier that no URL can hold (a control character).
BadIncludeID == "inc_\\x7f"
IncludeIDs == {"", "inc_12345", BadIncludeID}
ContractIDs == {"", "ctr_1"}
GroupIDs == {"", "grp_2"}
Etags == {"", "etag"}
SearchKeys == {"", SearchKeyEdgeHostname, SearchKeyHostname, SearchKeyPropertyName, "propertyId"}
SearchValues == {"", "www.example.com"}

Requests(op) ==
    CASE op \in {"GetConfigurationVersionClone", "RemoveConfigurationVersionClone"} ->
            {[ZeroRequest EXCEPT !.ConfigID = c, !.Version = v] : c \in IDs, v \in IDs}
      [] op = "CreateConfigurationVersionClone" ->
            {[ZeroRequest EXCEPT !.ConfigID = c, !.CreateFromVersion = v] : c \in IDs, v \in IDs}
      [] op = "CreateIncludeVersion" ->
            {[ZeroRequest EXCEPT !.IncludeID = i, !.CreateFromVersion = v,
                                 !.CreateFromVersionEtag = t] :
                i \in IncludeIDs, v \in IDs, t \in Etags}
      [] op = "GetIncludeVersion" ->
            {[ZeroRequest EXCEPT !.IncludeID = i, !.Version = v, !.ContractID = c,
                                 !.GroupID = g] :
                i \in IncludeIDs, v \in IDs, c \in ContractIDs, g \in GroupIDs}
      [] op = "ListIncludeVersions" ->
            {[ZeroRequest EXCEPT !.IncludeID = i, !.ContractID = c, !.GroupID = g] :
                i \in IncludeIDs, c \in ContractIDs, g \in GroupIDs}
      [] op \in {"ListIncludeVersionAvailableCriteria",
                 "ListIncludeVersionAvailableBehaviors"} ->
            {[ZeroRequest EXCEPT !.IncludeID = i, !.Version = v] :
                i \in IncludeIDs, v \in IDs}
      [] op = "SearchProperties" ->
            {[ZeroRequest EXCEPT !.key = k, !.value = v] :
                k \in SearchKeys, v \in SearchValues}

(***************************************************************************)
(* The HTTP request an operation builds, and what an operation returns:    *)
(* (response, error).  One record type holds the members of every request  *)
(* body and of every response.                                             *)
(***************************************************************************)
NoQuery == [set |-> FALSE, contractId |-> "", groupId |-> ""]
NoPayload ==
    [set |-> FALSE, CreateFromVersion |-> 0, CreateFromVersionEtag |-> "",
     key |-> "", value |-> "",
     members |-> {}, activationType |-> "", ignoreHttpErrors |-> NilBool,
     acknowledgeAllWarnings |-> FALSE, includeVersion |-> 0, network |-> "",
     note |-> "", notifyEmails |-> <<>>]

NoRequest ==
    [method |-> "", path |-> "", ConfigID |-> 0, Version |-> 0, IncludeID |-> "",
     ActivationID |-> "", query |-> NoQuery, rawQuery |-> <<>>, usePrefixes |-> "",
     ctx |-> "", payload |-> NoPayload]

\* url.Values.Encode: the pairs key=value, sorted by key.
QueryKeys == <<"contractId", "groupId">>
Encode(q) ==
    IF ~q.set THEN <<>>
    ELSE [n \in 1..Len(QueryKeys) |->
            <<QueryKeys[n], IF QueryKeys[n] = "contractId" THEN q.contractId ELSE q.groupId>>]

NilResponse == [nil |-> TRUE, raw |-> "", ActivationLink |-> NoLink, ActivationID |-> ""]
Returned(resp, err) == [resp |-> resp, err |-> err]
NothingReturned == Returned(NilResponse, NoError)

(***************************************************************************)
(* Validation (ozzo-validation).  Required fails on the zero value: 0 for  *)
(* an int, "" for a string.  In is skipped for an empty value and fails    *)
(* for a value outside the list; the rules of a field run in order and     *)
(* stop at the first failure.                                              *)
(***************************************************************************)
\* A Required that wants a positive number.
RequiredIntPositive(n) == n > 0

RequiredInt(n) == n # 0

\* A Required that lets the empty string through.
RequiredStrLax(s) == TRUE

RequiredStr(s) == s # ""
\* An In that lets every value through.
InAnything(s, allowed) == TRUE

In(s, allowed) == s = "" \/ s \in allowed

RequiredSlice(q) == Len(q) # 0

(***************************************************************************)
(* The include activations: ActivateInclude, DeactivateInclude,            *)
(* GetIncludeActivation and ListIncludeActivations, as their tests and the *)
(* specification describe them.                                            *)
(***************************************************************************)
ActivationOps ==
    {"ActivateInclude", "DeactivateInclude", "GetIncludeActivation",
     "ListIncludeActivations"}

ActivationTypeActivate == "ACTIVATE"
ActivationTypeDeactivate == "DEACTIVATE"
ActivationNetworkStaging == "STAGING"
ActivationNetworkProduction == "PRODUCTION"

ErrActivateInclude == Sentinel("activate include")
ErrDeactivateInclude == Sentinel("deactivate include")
ErrGetIncludeActivation == Sentinel("get include activation")
ErrListIncludeActivations == Sentinel("list include activations")

ActivationSentinel(op) ==
    CASE op = "ActivateInclude" -> ErrActivateInclude
      [] op = "DeactivateInclude" -> ErrDeactivateInclude
      [] op = "GetIncludeActivation" -> ErrGetIncludeActivation
      [] op = "ListIncludeActivations" -> ErrListIncludeActivations

\* A validation of the two activating requests that leaves NotifyEmails out.
ActivationFailedFieldsNoEmails(op, req) ==
    CASE op \in {"ActivateInclude", "DeactivateInclude"} ->
            {f \in {"IncludeID"} : ~RequiredStr(req.IncludeID)}
            \cup {f \in {"Version"} : ~RequiredInt(req.Version)}
            \cup {f \in {"Network"} : ~RequiredStr(req.Network)}
      [] op = "GetIncludeActivation" ->
            {f \in {"IncludeID"} : ~RequiredStr(req.IncludeID)}
            \cup {f \in {"ActivationID"} : ~RequiredStr(req.ActivationID)}
      [] op = "ListIncludeActivations" ->
            {f \in {"IncludeID"} : ~RequiredStr(req.IncludeID)}
            \cup {f \in {"ContractID"} : ~RequiredStr(req.ContractID)}
            \cup {f \in {"GroupID"} : ~RequiredStr(req.GroupID)}

\* The fields that fail in the Validate method of an activation request.
ActivationFailedFields(op, req) ==
    CASE op \in {"ActivateInclude", "DeactivateInclude"} ->
            {f \in {"IncludeID"} : ~RequiredStr(req.IncludeID)}
            \cup {f \in {"Version"} : ~RequiredInt(req.Version)}
            \cup {f \in {"Network"} : ~RequiredStr(req.Network)}
            \cup {f \in {"NotifyEmails"} : ~RequiredSlice(req.NotifyEmails)}
      [] op = "GetIncludeActivation" ->
            {f \in {"IncludeID"} : ~RequiredStr(req.IncludeID)}
            \cup {f \in {"ActivationID"} : ~RequiredStr(req.ActivationID)}
      [] op = "ListIncludeActivations" ->
            {f \in {"IncludeID"} : ~RequiredStr(req.IncludeID)}
            \cup {f \in {"ContractID"} : ~RequiredStr(req.ContractID)}
            \cup {f \in {"GroupID"} : ~RequiredStr(req.GroupID)}

\* A request whose query is written groupId first.
ActivationNewRequestGroupFirst(op, req, ctx) ==
    [NoRequest EXCEPT !.method = "GET", !.path = "/papi/v1/includes/%s/activations",
                      !.IncludeID = req.IncludeID,
                      !.query = [set |-> TRUE, contractId |-> req.ContractID,
                                 groupId |-> req.GroupID],
                      !.rawQuery = <<<<"groupId", req.GroupID>>,
                                     <<"contractId", req.ContractID>>>>,
                      !.ctx = ctx]

\* The method and the URI of the request of an activation operation.
ActivationNewRequest(op, req, ctx) ==
    CASE op \in {"ActivateInclude", "DeactivateInclude"} ->
            [NoRequest EXCEPT !.method = "POST", !.path = "/papi/v1/includes/%s/activations",
                              !.IncludeID = req.IncludeID, !.ctx = ctx]
      [] op = "GetIncludeActivation" ->
            [NoRequest EXCEPT !.method = "GET",
                              !.path = "/papi/v1/includes/%s/activations/%s",
                              !.IncludeID = req.IncludeID,
                              !.ActivationID = req.ActivationID, !.ctx = ctx]
      [] op = "ListIncludeActivations" ->
            [NoRequest EXCEPT !.method = "GET", !.path = "/papi/v1/includes/%s/activations",
                              !.IncludeID = req.IncludeID,
                              !.query = [set |-> TRUE, contractId |-> req.ContractID,
                                         groupId |-> req.GroupID],
                              !.rawQuery = Encode([set |-> TRUE,
                                                   contractId |-> req.ContractID,
                                                   groupId |-> req.GroupID]),
                              !.ctx = ctx]

\* The members of the body of the two activating requests.
ActivationMembers ==
    {"acknowledgeAllWarnings", "activationType", "ignoreHttpErrors", "includeVersion",
     "network", "note", "notifyEmails"}

\* A body that sends ignoreHttpErrors as the caller left it.
ActivationPayloadAsGiven(op, req) ==
    IF op \in {"ActivateInclude", "DeactivateInclude"}
    THEN [NoPayload EXCEPT
            !.set = TRUE,
            !.members = ActivationMembers,
            !.activationType = IF op = "ActivateInclude" THEN ActivationTypeActivate
                               ELSE ActivationTypeDeactivate,
            !.ignoreHttpErrors = req.IgnoreHTTPErrors,
            !.acknowledgeAllWarnings = req.AcknowledgeAllWarnings,
            !.includeVersion = req.Version,
            !.network = req.Network,
            !.note = req.Note,
            !.notifyEmails = req.NotifyEmails]
    ELSE NoPayload

\* The body an activation operation hands to Exec.
ActivationPayload(op, req) ==
    IF op \in {"ActivateInclude", "DeactivateInclude"}
    THEN [NoPayload EXCEPT
            !.set = TRUE,
            !.members = ActivationMembers,
            !.activationType = IF op = "ActivateInclude" THEN ActivationTypeActivate
                               ELSE ActivationTypeDeactivate,
            !.ignoreHttpErrors = IF req.IgnoreHTTPErrors.set THEN req.IgnoreHTTPErrors
                                 ELSE BoolPtr(TRUE),
            !.acknowledgeAllWarnings = req.AcknowledgeAllWarnings,
            !.includeVersion = req.Version,
            !.network = req.Network,
            !.note = req.Note,
            !.notifyEmails = req.NotifyEmails]
    ELSE NoPayload

ActivationAccepted(op) ==
    IF op \in {"ActivateInclude", "DeactivateInclude"} THEN {StatusCreated} ELSE {StatusOK}

\* The identifier in a link: the last piece of its path.
ResponseLinkParse(link) == link.segments[Len(link.segments)]

\* A result whose ActivationID is the piece after the first slash.
ActivationResultFirstSegment(op, r) ==
    IF op \in {"ActivateInclude", "DeactivateInclude"}
    THEN [NilResponse EXCEPT !.nil = FALSE, !.raw = r.body.raw,
                             !.ActivationLink = r.body.activationLink,
                             !.ActivationID =
                                 r.body.activationLink.segments[
                                     IF Len(r.body.activationLink.segments) > 1
                                     THEN 2 ELSE 1]]
    ELSE [NilResponse EXCEPT !.nil = FALSE, !.raw = r.body.raw]

\* The result of an activation operation for an accepted response.
ActivationResult(op, r) ==
    IF op \in {"ActivateInclude", "DeactivateInclude"}
    THEN [NilResponse EXCEPT !.nil = FALSE, !.raw = r.body.raw,
                             !.ActivationLink = r.body.activationLink,
                             !.ActivationID = ResponseLinkParse(r.body.activationLink)]
    ELSE [NilResponse EXCEPT !.nil = FALSE, !.raw = r.body.raw]

\* The returns of an activation operation on its failures.
ActivationValidationFailure(op, verr) ==
    Returned(NilResponse,
             Errorf(<<ActivationSentinel(op)[1].name, ": ", ErrStructValidation[1].name,
                      ": ", verr[1].name>>, ErrStructValidation))

ActivationBuildError(op) ==
    Errorf(<<ActivationSentinel(op)[1].name, ": failed to create request: ", "url.Error">>,
           ActivationSentinel(op))

ActivationExecFailure(op, err) ==
    Returned(NilResponse,
             Errorf(<<ActivationSentinel(op)[1].name, ": request failed: ", err[1].name>>,
                    ActivationSentinel(op)))

ActivationStatusError(op, r) ==
    [err |-> Errorf(<<ActivationSentinel(op)[1].name, ": ", "API error">>, papiError(r)),
     decoder |-> "papi.Error"]

\* The fields that fail in the Validate method of the request of op.
FailedFields(op, req) ==
    CASE op \in ActivationOps -> ActivationFailedFields(op, req)
      [] op \in {"GetConfigurationVersionClone", "RemoveConfigurationVersionClone"} ->
            {f \in {"ConfigID"} : ~RequiredInt(req.ConfigID)}
            \cup {f \in {"Version"} : ~RequiredInt(req.Version)}
      [] op = "CreateConfigurationVersionClone" ->
            {f \in {"ConfigID"} : ~RequiredInt(req.ConfigID)}
            \cup {f \in {"Version"} : ~RequiredInt(req.CreateFromVersion)}
      [] op = "CreateIncludeVersion" ->
            {f \in {"IncludeID"} : ~RequiredStr(req.IncludeID)}
            \cup {f \in {"CreateFromVersion"} : ~RequiredInt(req.CreateFromVersion)}
      [] op = "GetIncludeVersion" ->
            {f \in {"IncludeID"} : ~RequiredStr(req.IncludeID)}
            \cup {f \in {"Version"} : ~RequiredInt(req.Version)}
            \cup {f \in {"ContractID"} : ~RequiredStr(req.ContractID)}
            \cup {f \in {"GroupID"} : ~RequiredStr(req.GroupID)}
      [] op = "ListIncludeVersions" ->
            {f \in {"IncludeID"} : ~RequiredStr(req.IncludeID)}
            \cup {f \in {"ContractID"} : ~RequiredStr(req.ContractID)}
            \cup {f \in {"GroupID"} : ~RequiredStr(req.GroupID)}
      [] op \in {"ListIncludeVersionAvailableCriteria",
                 "ListIncludeVersionAvailableBehaviors"} ->
            {f \in {"IncludeID"} : ~RequiredStr(req.IncludeID)}
            \cup {f \in {"Version"} : ~RequiredInt(req.Version)}
      [] op = "SearchProperties" ->
            {f \in {"SearchKey"} :
                ~(RequiredStr(req.key)
                  /\ In(req.key, {SearchKeyEdgeHostname, SearchKeyHostname,
                                  SearchKeyPropertyName}))}
            \cup {f \in {"SearchValue"} : ~RequiredStr(req.value)}

\* A validation in which Required is not applied to the numbers.
ValidateStringsOnly(op, req) ==
    IF FailedFields(op, req) \ {"ConfigID", "Version", "CreateFromVersion"} = {}
    THEN NoError
    ELSE OtherErr("validation.Errors")

\* validation.Errors{...}.Filter() and edgegriderr.ParseValidationErrors:
\* nil when no field failed, an error naming the failed fields otherwise.
Validate(op, req) ==
    IF FailedFields(op, req) = {} THEN NoError ELSE OtherErr("validation.Errors")

(***************************************************************************)
(* Building the HTTP request.                                              *)
(***************************************************************************)
\* url.Parse, also made by http.NewRequestWithContext: fails on a control
\* character; numbers formatted with %d always parse.
URLParses(id) == id # BadIncludeID

\* cast.ToString of a bool.
castToString(b) == IF b THEN "true" ELSE "false"

\* A request made with context.Background() in place of ctx.
NewRequestBackground(op, req, ctx, cl) ==
    [NoRequest EXCEPT !.method = "GET", !.path = "/", !.IncludeID = req.IncludeID,
                      !.ConfigID = req.ConfigID, !.Version = req.Version,
                      !.ctx = "background"]

\* The method, the URI (its template and the values put in it) and the
\* header of the request of op.
NewRequest(op, req, ctx, cl) ==
    CASE op \in ActivationOps -> ActivationNewRequest(op, req, ctx)
      [] op = "GetConfigurationVersionClone" ->
            [NoRequest EXCEPT !.method = "GET", !.path = "/appsec/v1/configs/%d/versions/%d",
                              !.ConfigID = req.ConfigID, !.Version = req.Version, !.ctx = ctx]
      [] op = "CreateConfigurationVersionClone" ->
            [NoRequest EXCEPT !.method = "POST", !.path = "/appsec/v1/configs/%d/versions",
                              !.ConfigID = req.ConfigID, !.ctx = ctx]
      [] op = "RemoveConfigurationVersionClone" ->
            [NoRequest EXCEPT !.method = "DELETE", !.path = "/appsec/v1/configs/%d/versions/%d",
                              !.ConfigID = req.ConfigID, !.Version = req.Version, !.ctx = ctx]
      [] op = "CreateIncludeVersion" ->
            [NoRequest EXCEPT !.method = "POST", !.path = "/papi/v1/includes/%s/versions",
                              !.IncludeID = req.IncludeID, !.ctx = ctx]
      [] op = "GetIncludeVersion" ->
            [NoRequest EXCEPT !.method = "GET", !.path = "/papi/v1/includes/%s/versions/%d",
                              !.IncludeID = req.IncludeID, !.Version = req.Version,
                              !.query = [set |-> TRUE, contractId |-> req.ContractID,
                                         groupId |-> req.GroupID],
                              !.rawQuery = Encode([set |-> TRUE,
                                                   contractId |-> req.ContractID,
                                                   groupId |-> req.GroupID]),
                              !.ctx = ctx]
      [] op = "ListIncludeVersions" ->
            [NoRequest EXCEPT !.method = "GET", !.path = "/papi/v1/includes/%s/versions",
                              !.IncludeID = req.IncludeID,
                              !.query = [set |-> TRUE, contractId |-> req.ContractID,
                                         groupId |-> req.GroupID],
                              !.rawQuery = Encode([set |-> TRUE,
                                                   contractId |-> req.ContractID,
                                                   groupId |-> req.GroupID]),
                              !.ctx = ctx]
      [] op = "ListIncludeVersionAvailableCriteria" ->
            [NoRequest EXCEPT !.method = "GET",
                              !.path = "/papi/v1/includes/%s/versions/%d/available-criteria",
                              !.IncludeID = req.IncludeID, !.Version = req.Version, !.ctx = ctx]
      [] op = "ListIncludeVersionAvailableBehaviors" ->
            [NoRequest EXCEPT !.method = "GET",
                              !.path = "/papi/v1/includes/%s/versions/%d/available-behaviors",
                              !.IncludeID = req.IncludeID, !.Version = req.Version, !.ctx = ctx]
      [] op = "SearchProperties" ->
            [NoRequest EXCEPT !.method = "POST", !.path = "/papi/v1/search/find-by-value",
                              !.usePrefixes = castToString(cl.usePrefixes), !.ctx = ctx]

\* The error an operation returns when the URI does not parse or the
\* request cannot be created.
BuildError(op) ==
    CASE op \in ActivationOps -> ActivationBuildError(op)
      [] op \in {"GetConfigurationVersionClone", "CreateConfigurationVersionClone"} ->
            Errorf(<<"failed to create ", op, " request: ", "url.Error">>, OtherErr("url.Error"))
      [] op = "RemoveConfigurationVersionClone" ->
            Errorf(<<"failed to parse url: ", "url.Error">>, OtherErr("url.Error"))
      [] op \in {"GetIncludeVersion", "ListIncludeVersions"} ->
            Errorf(<<OpSentinel(op)[1].name, ": failed to parse url: ", "url.Error">>,
                   OpSentinel(op))
      [] op \in {"CreateIncludeVersion", "ListIncludeVersionAvailableCriteria",
                 "ListIncludeVersionAvailableBehaviors"} ->
            Errorf(<<OpSentinel(op)[1].name, ": failed to create request: ", "url.Error">>,
                   OpSentinel(op))
      [] op = "SearchProperties" ->
            Errorf(<<"failed to create SearchProperties request: ", "url.Error">>,
                   OtherErr("url.Error"))

\* The input the operation hands to Exec besides the request.
Payload(op, req) ==
    CASE op \in ActivationOps -> ActivationPayload(op, req)
      [] op = "CreateConfigurationVersionClone" ->
            [NoPayload EXCEPT !.set = TRUE, !.CreateFromVersion = req.CreateFromVersion]
      [] op = "CreateIncludeVersion" ->
            [NoPayload EXCEPT !.set = TRUE, !.CreateFromVersion = req.CreateFromVersion,
                              !.CreateFromVersionEtag = req.CreateFromVersionEtag]
      [] op = "SearchProperties" ->
            [NoPayload EXCEPT !.set = TRUE, !.key = req.key, !.value = req.value]
      [] OTHER -> NoPayload

(***************************************************************************)
(* What an operation returns: (response, error).                           *)
(***************************************************************************)
\* if err := params.Validate(); err != nil { return nil, fmt.Errorf(...) }
ValidationFailureWrapsSentinel(op, verr) ==
    IF op \in IncludeVersionOps
    THEN Returned(NilResponse,
                  Errorf(<<OpSentinel(op)[1].name, ": ", ErrStructValidation[1].name, ": ",
                           verr[1].name>>, OpSentinel(op)))
    ELSE Returned(NilResponse,
                  Errorf(<<verr[1].name>>, verr))

ValidationFailure(op, verr) ==
    CASE op \in ActivationOps -> ActivationValidationFailure(op, verr)
      [] op \in AppsecOps ->
            Returned(NilResponse,
                     Errorf(<<appsecErrStructValidation[1].name, ": ", verr[1].name>>,
                            appsecErrStructValidation))
      [] op = "SearchProperties" ->
            Returned(NilResponse,
                     Errorf(<<ErrStructValidation[1].name, ": ", verr[1].name>>,
                            ErrStructValidation))
      [] op \in IncludeVersionOps ->
            Returned(NilResponse,
                     Errorf(<<OpSentinel(op)[1].name, ": ", ErrStructValidation[1].name, ": ",
                              verr[1].name>>, ErrStructValidation))

\* A return on an Exec failure that drops the error.
ExecFailureSwallowed(op, err) == Returned(NilResponse, NoError)

\* resp, err := p.Exec(...); if err != nil { return nil, fmt.Errorf(...) }
ExecFailure(op, err) ==
    IF op \in ActivationOps
    THEN ActivationExecFailure(op, err)
    ELSE IF op \in IncludeVersionOps
    THEN Returned(NilResponse,
                  Errorf(<<OpSentinel(op)[1].name, ": request failed: ", err[1].name>>,
                         OpSentinel(op)))
    ELSE Returned(NilResponse,
                  Errorf(<<op, " request failed: ", err[1].name>>, err))

\* A status test that lets the three conventional statuses through.
AcceptedConventional(op) == {StatusOK, StatusCreated, StatusNoContent}

\* A status test that lets 200 and 201 through in every operation.
AcceptedOKOrCreated(op) == {StatusOK, StatusCreated}

\* The statuses the operation's status test lets through.
Accepted(op) ==
    CASE op \in ActivationOps -> ActivationAccepted(op)
      [] op = "GetConfigurationVersionClone" -> {StatusOK}
      [] op = "CreateConfigurationVersionClone" -> {StatusOK, StatusCreated}
      [] op = "RemoveConfigurationVersionClone" -> {StatusNoContent, StatusOK}
      [] op = "CreateIncludeVersion" -> {StatusCreated}
      [] op \in {"GetIncludeVersion", "ListIncludeVersions",
                 "ListIncludeVersionAvailableCriteria",
                 "ListIncludeVersionAvailableBehaviors"} -> {StatusOK}
      [] op = "SearchProperties" -> {StatusOK}

\* A SearchProperties that makes the test for a status other than 200
\* before the test for 404.
StatusErrorGenericFirst(op, r) ==
    CASE op \in ActivationOps -> ActivationStatusError(op, r)
      [] op \in AppsecOps ->
            [err |-> appsecError(r), decoder |-> "appsec.Error"]
      [] op \in IncludeVersionOps ->
            [err |-> Errorf(<<OpSentinel(op)[1].name, ": ", "API error">>, papiError(r)),
             decoder |-> "papi.Error"]
      [] op = "SearchProperties" ->
            [err |-> NewAPIError(r), decoder |-> "session.NewAPIError"]

\* The error for a response whose status is not accepted, and the error
\* decoder that made it ("" when none ran).
StatusError(op, r) ==
    CASE op \in ActivationOps -> ActivationStatusError(op, r)
      [] op \in AppsecOps ->
            [err |-> appsecError(r), decoder |-> "appsec.Error"]
      [] op \in IncludeVersionOps ->
            [err |-> Errorf(<<OpSentinel(op)[1].name, ": ", "API error">>, papiError(r)),
             decoder |-> "papi.Error"]
      [] op = "SearchProperties" ->
            IF r.StatusCode = StatusNotFound
            THEN [err |-> Errorf(<<ErrNotFound[1].name, ": ",
                                   "/papi/v1/search/find-by-value">>, ErrNotFound),
                  decoder |-> ""]
            ELSE [err |-> NewAPIError(r), decoder |-> "session.NewAPIError"]

\* The result Exec decoded from the body of an accepted response.
Decoded(op, r) ==
    IF op \in ActivationOps
    THEN ActivationResult(op, r)
    ELSE [NilResponse EXCEPT !.nil = FALSE, !.raw = r.body.raw]

\* A status test that has the error decoder read the response first.
CheckStatusDecodesFirst(op, r) ==
    LET se == StatusError(op, r)
    IN  IF r.StatusCode \in Accepted(op)
        THEN [ret |-> Returned(Decoded(op, r), NoError), decoder |-> se.decoder]
        ELSE [ret |-> Returned(NilResponse, se.err), decoder |-> se.decoder]

\* The status test and what follows it, to the return.
CheckStatus(op, r) ==
    IF r.StatusCode \in Accepted(op)
    THEN [ret |-> Returned(Decoded(op, r), NoError), decoder |-> ""]
    ELSE LET se == StatusError(op, r)
         IN  [ret |-> Returned(NilResponse, se.err), decoder |-> se.decoder]

(***************************************************************************)
(* The transport: Exec returns an error, or a response.                    *)
(***************************************************************************)
NoReply == [err |-> NoError, StatusCode |-> 0, body |-> EmptyObjectBody]
TransportError == [err |-> OtherErr("transport error"), StatusCode |-> 0, body |-> EmptyObjectBody]
Response(status, body) == [err |-> NoError, StatusCode |-> status, body |-> body]

InternalErrorBody ==
    ProblemBody("internal_error", "Internal Server Error", "Error getting include", "",
                PtrTo(StatusInternalServerError))
SBDBody ==
    ProblemBody(SBDType, "Forbidden", "SBD is not enabled", "/instance/1", NilInt)
OtherStatusBody ==
    Body("json", "{statusCode}", "bad_request", "Bad Request", "wrong", "", PtrTo(400),
         PtrTo(400), "", NilInt, "")
BadTypeBody ==
    Body("json", "{bad}", "bad_request", "Bad Request", "wrong", "", PtrTo(400),
         PtrTo(400), "", NilInt, "statusCode")

Bodies ==
    {UnreadableBody, TextBody, EmptyObjectBody, InternalErrorBody, SBDBody,
     OtherStatusBody, BadTypeBody}

Replies == {TransportError} \cup {Response(s, b) : s \in Statuses, b \in Bodies}

Contexts == {"live", "done"}

Workload ==
    UNION {{[op |-> op, req |-> r, ctx |-> x] : r \in Requests(op), x \in Contexts} :
           op \in Ops}

\* A smaller environment for runs with several goroutines: per operation
\* the zero request and the requests that pass validation with typical
\* values, and a server that answers 200, 201, 404 or 500 or not at all.
Typical(r) ==
    /\ r.ConfigID \in {0, MaxID}
    /\ r.Version \in {0, MaxID}
    /\ r.CreateFromVersion \in {0, MaxID}
    /\ r.IncludeID \in {"", "inc_12345"}
    /\ r.CreateFromVersionEtag = ""
    /\ r.key \in {"", SearchKeyHostname}

SmallWorkload ==
    UNION {{[op |-> op, req |-> r, ctx |-> "live"] :
              r \in {q \in Requests(op) :
                        Typical(q) /\ (FailedFields(op, q) = {} \/ q = ZeroRequest)}} :
           op \in Ops}

SmallReplies ==
    {TransportError}
    \cup {Response(s, InternalErrorBody) :
            s \in {StatusOK, StatusCreated, StatusNotFound, StatusInternalServerError}}

\* The environment of the include activations: requests with each
\* validated field present or absent, and a server that answers 200, 201
\* or 500 with a body that holds an activation link, or a problem.
ActivationIDs == {"", "atv_12345"}
Networks == {"", ActivationNetworkStaging, ActivationNetworkProduction}
NotifyEmailLists == {<<>>, <<"jbond@example.com">>}

ActivationRequests(op) ==
    CASE op \in {"ActivateInclude", "DeactivateInclude"} ->
            {[ZeroRequest EXCEPT !.IncludeID = i, !.Version = v, !.Network = n,
                                 !.Note = "test activation", !.NotifyEmails = m,
                                 !.AcknowledgeAllWarnings = a, !.IgnoreHTTPErrors = h] :
                i \in {"", "inc_12345"}, v \in IDs, n \in Networks,
                m \in NotifyEmailLists, a \in BOOLEAN,
                h \in {NilBool, BoolPtr(TRUE), BoolPtr(FALSE)}}
      [] op = "GetIncludeActivation" ->
            {[ZeroRequest EXCEPT !.IncludeID = i, !.ActivationID = a] :
                i \in {"", "inc_12345"}, a \in ActivationIDs}
      [] op = "ListIncludeActivations" ->
            {[ZeroRequest EXCEPT !.IncludeID = i, !.ContractID = c, !.GroupID = g] :
                i \in {"", "inc_12345"}, c \in ContractIDs, g \in GroupIDs}

ActivationWorkload ==
    UNION {{[op |-> op, req |-> r, ctx |-> "live"] : r \in ActivationRequests(op)} :
           op \in ActivationOps}

TemporaryActivationLink ==
    Link(<<"", "papi", "v1", "includes", "inc_12345", "activations",
           "temporary-activation-id">>, "")
QueryActivationLink ==
    Link(<<"", "papi", "v1", "includes", "inc_12345", "activations", "atv_12345">>,
         "contractId=ctr_1")
ActivationLinks == {NoLink, TemporaryActivationLink, QueryActivationLink}

LinkBody(link) ==
    [EmptyObjectBody EXCEPT !.raw = "{activationLink}", !.activationLink = link]

ActivationReplies ==
    {TransportError}
    \cup {Response(st, b) :
            st \in {StatusOK, StatusCreated, StatusInternalServerError},
            b \in {LinkBody(l) : l \in ActivationLinks} \cup {InternalErrorBody}}

WorkloadOf(e) ==
    CASE e = "full" -> Workload
      [] e = "small" -> SmallWorkload
      [] e = "act" -> ActivationWorkload
      [] OTHER -> {}
RepliesOf(e) ==
    CASE e = "full" -> Replies
      [] e = "small" -> SmallReplies
      [] e = "act" -> ActivationReplies
      [] OTHER -> {}

(***************************************************************************)
(* The state of a call.  pc is the place in the operation's code; execs    *)
(* counts the calls of Exec; steps lists what the call has done.           *)
(***************************************************************************)
IdleCall ==
    [pc |-> "idle", op |-> "", req |-> ZeroRequest, ctx |-> "", httpreq |-> NoRequest,
     execs |-> 0, reply |-> NoReply, ret |-> NothingReturned, steps |-> <<>>]

CmpIdle ==
    [phase |-> "off", e |-> PapiErr(ZeroError, 1), target |-> NoError,
     result |-> FALSE, tests |-> <<>>]

DecIdle ==
    [phase |-> "off", decoder |-> "", r |-> NoReply, err |-> NoError]

Init ==
    /\ client \in [usePrefixes : BOOLEAN]
    /\ calls = [c \in {"c1"} |-> IdleCall]
    /\ env = "full"
    /\ cmp = CmpIdle
    /\ dec = DecIdle

\* The application calls an operation: op(ctx, params).
Start(c) ==
    /\ calls[c].pc = "idle"
    /\ \E w \in WorkloadOf(env) :
          calls' = [calls EXCEPT ![c] =
                      [IdleCall EXCEPT !.pc = "validate", !.op = w.op, !.req = w.req,
                                       !.ctx = w.ctx]]
    /\ UNCHANGED <<client, env, cmp, dec>>

\* params.Validate() and the return on its failure.
ValidateStep(c) ==
    /\ calls[c].pc = "validate"
    /\ LET k == calls[c]
           verr == Validate(k.op, k.req)
       IN  calls' = [calls EXCEPT ![c] =
                       IF verr # NoError
                       THEN [k EXCEPT !.pc = "done",
                                      !.ret = ValidationFailure(k.op, verr),
                                      !.steps = Append(@, "validate")]
                       ELSE [k EXCEPT !.pc = "build",
                                      !.steps = Append(@, "validate")]]
    /\ UNCHANGED <<client, env, cmp, dec>>

\* The URI and http.NewRequestWithContext, and the return on their failure.
Build(c) ==
    /\ calls[c].pc = "build"
    /\ LET k == calls[c]
       IN  calls' = [calls EXCEPT ![c] =
                       IF ~URLParses(k.req.IncludeID)
                       THEN [k EXCEPT !.pc = "done",
                                      !.ret = Returned(NilResponse, BuildError(k.op)),
                                      !.steps = Append(@, "build")]
                       ELSE [k EXCEPT !.pc = "exec",
                                      !.httpreq = NewRequest(k.op, k.req, k.ctx, client),
                                      !.steps = Append(@, "build")]]
    /\ UNCHANGED <<client, env, cmp, dec>>

\* p.Exec(req, &result, ...): the request goes to the transport.
Exec(c) ==
    /\ calls[c].pc = "exec"
    /\ LET k == calls[c]
       IN  calls' = [calls EXCEPT ![c] =
                       [k EXCEPT !.pc = "wait",
                                 !.httpreq.payload = Payload(k.op, k.req),
                                 !.execs = @ + 1,
                                 !.steps = Append(@, "exec")]]
    /\ UNCHANGED <<client, env, cmp, dec>>

\* An Exec whose failure sends the call back to Exec once more.
ExecReturnsRetries(c) ==
    /\ calls[c].pc = "wait"
    /\ \E r \in RepliesOf(env) :
          LET k == calls[c]
          IN  calls' = [calls EXCEPT ![c] =
                          IF r.err # NoError
                          THEN IF k.execs < 2
                               THEN [k EXCEPT !.pc = "exec"]
                               ELSE [k EXCEPT !.pc = "done", !.reply = r,
                                              !.ret = ExecFailure(k.op, r.err)]
                          ELSE [k EXCEPT !.pc = "status", !.reply = r]]
    /\ UNCHANGED <<client, env, cmp, dec>>

\* Exec returns, with an error or a response; the return on an error.
ExecReturns(c) ==
    /\ calls[c].pc = "wait"
    /\ \E r \in RepliesOf(env) :
          LET k == calls[c]
          IN  calls' = [calls EXCEPT ![c] =
                          IF r.err # NoError
                          THEN [k EXCEPT !.pc = "done", !.reply = r,
                                         !.ret = ExecFailure(k.op, r.err)]
                          ELSE [k EXCEPT !.pc = "status", !.reply = r]]
    /\ UNCHANGED <<client, env, cmp, dec>>

\* A status test that reads the response from a place the calls share: it
\* sees the response of whichever call received one.
StatusStepSharedResponse(c) ==
    /\ calls[c].pc = "status"
    /\ \E d \in DOMAIN calls :
          /\ calls[d].pc = "status"
          /\ LET k == calls[c]
                 st == CheckStatus(k.op, calls[d].reply)
             IN  calls' = [calls EXCEPT ![c] =
                             [k EXCEPT !.pc = "done", !.ret = st.ret,
                                       !.steps = IF st.decoder # ""
                                                 THEN @ \o <<"status", "decode">>
                                                 ELSE Append(@, "status")]]
    /\ UNCHANGED <<client, env, cmp, dec>>

\* A status test of a client that remembers a failed transport: while a
\* call that ended in a transport error has not been collected, the calls
\* that follow fail with it.
StatusStepAfterBrokenTransport(c) ==
    /\ calls[c].pc = "status"
    /\ LET k == calls[c]
           st == CheckStatus(k.op, k.reply)
           broken == \E d \in DOMAIN calls \ {c} :
                        calls[d].pc = "done" /\ calls[d].reply.err # NoError
       IN  calls' = [calls EXCEPT ![c] =
                       [k EXCEPT !.pc = "done",
                                 !.ret = IF broken
                                         THEN ExecFailure(k.op, TransportError.err)
                                         ELSE st.ret,
                                 !.steps = IF st.decoder # ""
                                           THEN @ \o <<"status", "decode">>
                                           ELSE Append(@, "status")]]
    /\ UNCHANGED <<client, env, cmp, dec>>

\* The status test, the error decoder when it fails, and the return.
StatusStep(c) ==
    /\ calls[c].pc = "status"
    /\ LET k == calls[c]
           st == CheckStatus(k.op, k.reply)
       IN  calls' = [calls EXCEPT ![c] =
                       [k EXCEPT !.pc = "done", !.ret = st.ret,
                                 !.steps = IF st.decoder # ""
                                           THEN @ \o <<"status", "decode">>
                                           ELSE Append(@, "status")]]
    /\ UNCHANGED <<client, env, cmp, dec>>

\* The caller has consumed what the call returned.
Return(c) ==
    /\ calls[c].pc = "done"
    /\ calls' = [calls EXCEPT ![c] = IdleCall]
    /\ UNCHANGED <<client, env, cmp, dec>>

Next ==
    \/ \E c \in DOMAIN calls : Start(c)
    \/ \E c \in DOMAIN calls : ValidateStep(c)
    \/ \E c \in DOMAIN calls : Build(c)
    \/ \E c \in DOMAIN calls : Exec(c)
    \/ \E c \in DOMAIN calls : ExecReturns(c)
    \/ \E c \in DOMAIN calls : StatusStep(c)
    \/ \E c \in DOMAIN calls : Return(c)

Spec == Init /\ [][Next]_vars

\* Two goroutines call operations on one client.
InitConc ==
    /\ client \in [usePrefixes : BOOLEAN]
    /\ calls = [c \in {"c1", "c2"} |-> IdleCall]
    /\ env = "small"
    /\ cmp = CmpIdle
    /\ dec = DecIdle

SpecConc == InitConc /\ [][Next]_vars

\* One goroutine calls the include activations.
InitAct ==
    /\ client \in [usePrefixes : BOOLEAN]
    /\ calls = [c \in {"c1"} |-> IdleCall]
    /\ env = "act"
    /\ cmp = CmpIdle
    /\ dec = DecIdle

SpecAct == InitAct /\ [][Next]_vars

(***************************************************************************)
(* Error comparison: e.Is(target) for a papi.Error e the application holds *)
(* (address 1) and a target that is a sentinel, another error, a           *)
(* papi.Error (address 2, or e itself), or one of these wrapped by         *)
(* fmt.Errorf.                                                             *)
(***************************************************************************)
ErrorValues ==
    {[ZeroError EXCEPT !.Type = ty, !.Title = ti, !.Detail = "detail",
                       !.StatusCode = st, !.LimitKey = lk, !.Remaining = rm] :
        ty \in {SBDType, "internal_error"},
        ti \in {"", "Title"},
        st \in {StatusForbidden, StatusTooManyRequests, StatusInternalServerError},
        lk \in {"", DefaultCertsLimitKey},
        rm \in {NilInt} \cup {PtrTo(n) : n \in 0..MaxRemaining}}

Wrapped(err) == Errorf(<<"context: ", Text(err)>>, err)

Targets(e) ==
    LET plain == {ErrSBDNotEnabled, ErrDefaultCertLimitReached, ErrStructValidation,
                  OtherErr("io.EOF"), PapiErr(e, 1)}
                 \cup {PapiErr(t, 2) : t \in ErrorValues}
    IN  plain \cup {Wrapped(t) : t \in plain}

InitIs ==
    /\ client = [usePrefixes |-> FALSE]
    /\ calls = [c \in {"c1"} |-> IdleCall]
    /\ env = "none"
    /\ dec = DecIdle
    /\ \E e \in ErrorValues :
          \E t \in Targets(e) :
             cmp = [phase |-> "ready", e |-> PapiErr(e, 1), target |-> t,
                    result |-> FALSE, tests |-> <<>>]

\* errors.Is(e, target) for the error e itself: e.Is(target).
Compare ==
    /\ cmp.phase = "ready"
    /\ LET is == papiIs(cmp.e[1], cmp.target)
       IN  cmp' = [cmp EXCEPT !.phase = "done", !.result = is.result, !.tests = is.tests]
    /\ UNCHANGED <<client, calls, env, dec>>

NextIs == Compare

SpecIs == InitIs /\ [][NextIs]_vars

(***************************************************************************)
(* Error comparison in both directions, for the Error types of papi and    *)
(* of ivm: e.Is(target), and target.Is(e) when target is an Error itself.  *)
(***************************************************************************)
IvmErrorValues ==
    {[ZeroIvmError EXCEPT !.Type = ty, !.Title = ti, !.Detail = d, !.Status = st] :
        ty \in {"", "internal_error"},
        ti \in {"", "Title"},
        d \in {"", "detail"},
        st \in {0, StatusForbidden, StatusInternalServerError}}

IvmTargets(i) ==
    LET plain == {ErrStructValidation, OtherErr("io.EOF"), PapiErr(ZeroError, 2),
                  IvmErr(i, 1)}
                 \cup {IvmErr(t, 2) : t \in IvmErrorValues}
    IN  plain \cup {Wrapped(t) : t \in plain}

PapiPairTargets(e) == {PapiErr(e, 1)} \cup {PapiErr(t, 2) : t \in ErrorValues}

\* The Is method of an Error value.
MethodIs(n, target) ==
    IF n.kind = "papi" THEN papiIs(n, target).result ELSE ivmIs(n, target)

InitIsPair ==
    /\ client = [usePrefixes |-> FALSE]
    /\ calls = [c \in {"c1"} |-> IdleCall]
    /\ env = "none"
    /\ dec = DecIdle
    /\ \/ \E e \in ErrorValues :
             \E t \in PapiPairTargets(e) :
                cmp = [phase |-> "ready", e |-> PapiErr(e, 1), target |-> t,
                       result |-> FALSE, reverse |-> FALSE]
       \/ \E i \in IvmErrorValues :
             \E t \in IvmTargets(i) :
                cmp = [phase |-> "ready", e |-> IvmErr(i, 1), target |-> t,
                       result |-> FALSE, reverse |-> FALSE]

\* e.Is(target), and target.Is(e) for a target that has the method.
ComparePair ==
    /\ cmp.phase = "ready"
    /\ cmp' = [cmp EXCEPT
                 !.phase = "done",
                 !.result = MethodIs(cmp.e[1], cmp.target),
                 !.reverse = IF Len(cmp.target) = 1
                                /\ cmp.target[1].kind \in {"papi", "ivm"}
                             THEN MethodIs(cmp.target[1], cmp.e)
                             ELSE FALSE]
    /\ UNCHANGED <<client, calls, env, dec>>

NextIsPair == ComparePair

SpecIsPair == InitIsPair /\ [][NextIsPair]_vars

(***************************************************************************)
(* Error decoding: an error decoder is handed a response.                  *)
(***************************************************************************)
CertLimitBody ==
    Body("json", "{limit}", "limit_exceeded", "Too Many Requests", "limit reached", "",
         PtrTo(StatusTooManyRequests), NilInt, DefaultCertsLimitKey, PtrTo(0), "")
BadStatusBody ==
    Body("json", "{bad status}", "bad_request", "Bad Request", "wrong", "",
         PtrTo(400), NilInt, "", NilInt, "status")

DecoderBodies == Bodies \cup {CertLimitBody, BadStatusBody}

InitDecode ==
    /\ client = [usePrefixes |-> FALSE]
    /\ calls = [c \in {"c1"} |-> IdleCall]
    /\ env = "none"
    /\ cmp = CmpIdle
    /\ \E d \in {"papi.Error", "ivm.Error"} :
          \E s \in Statuses :
             \E b \in DecoderBodies :
                dec = [phase |-> "ready", decoder |-> d, r |-> Response(s, b),
                       err |-> NoError]

\* p.Error(resp) or i.Error(resp)
Decode ==
    /\ dec.phase = "ready"
    /\ dec' = [dec EXCEPT !.phase = "done",
                          !.err = IF dec.decoder = "papi.Error"
                                  THEN papiError(dec.r)
                                  ELSE ivmError(dec.r)]
    /\ UNCHANGED <<client, calls, env, cmp>>

NextDecode == Decode

SpecDecode == InitDecode /\ [][NextDecode]_vars

(***************************************************************************)
(* Properties.                                                             *)
(***************************************************************************)
\* Whether the call has made the step.
Did(k, step) == \E n \in 1..Len(k.steps) : k.steps[n] = step

\* Whether the call is over and its request did not pass validation.
Rejected(k) == k.pc = "done" /\ FailedFields(k.op, k.req) # {}

\* C1: in every state of a call whose request fails validation, Exec has
\* not been called: no request was built, none was handed to the
\* transport, and the call is before its validation or has returned.
C1_NoExecAfterFailedValidation ==
    \A c \in DOMAIN calls :
        LET k == calls[c]
        IN  (k.pc # "idle" /\ FailedFields(k.op, k.req) # {})
            => /\ k.execs = 0
               /\ ~Did(k, "exec")
               /\ k.httpreq = NoRequest
               /\ k.pc \in {"validate", "done"}

C1_Witness ==
    \E c \in DOMAIN calls :
        /\ Rejected(calls[c])
        /\ Did(calls[c], "validate")
        /\ calls[c].execs = 0

\* The ErrStructValidation of the package of op.
StructValidationOf(op) ==
    IF op \in AppsecOps THEN appsecErrStructValidation ELSE ErrStructValidation

\* C2: a call that returns because validation rejected its request returns
\* a nil response and an error for which errors.Is(err, ErrStructValidation)
\* holds, in the clone operations, SearchProperties and the include-version
\* operations alike.
C2_RejectionWrapsErrStructValidation ==
    \A c \in DOMAIN calls :
        LET k == calls[c]
        IN  Rejected(k)
            => /\ k.ret.resp = NilResponse
               /\ k.ret.err # NoError
               /\ ErrorsIs(k.ret.err, StructValidationOf(k.op))

C2_Witness ==
    \E c \in DOMAIN calls :
        /\ Rejected(calls[c])
        /\ calls[c].op \in IncludeVersionOps
        /\ calls[c].ret.err[1].msg[1] = OpSentinel(calls[c].op)[1].name
        /\ ErrorsIs(calls[c].ret.err, ErrStructValidation)

\* Whether the call is over and Exec gave it a response.
Answered(k) == k.pc = "done" /\ Did(k, "status")

\* Whether the error is a structured API error that carries the status.
StructuredWithStatus(err, status) ==
    \E n \in 1..Len(err) :
        err[n].kind \in {"papi", "api"} /\ err[n].e.StatusCode = status

Succeeded(k) ==
    /\ k.ret.err = NoError
    /\ ~k.ret.resp.nil
    /\ k.ret.resp.raw = k.reply.body.raw

FailedStructured(k) ==
    /\ k.ret.resp = NilResponse
    /\ k.ret.err # NoError
    /\ IF k.op = "SearchProperties" /\ k.reply.StatusCode = StatusNotFound
       THEN ErrorsIs(k.ret.err, ErrNotFound)
       ELSE StructuredWithStatus(k.ret.err, k.reply.StatusCode)

\* C3 as stated: for every operation a response with status 200, 201 or
\* 204 is a success and a response with any other status is returned as a
\* structured error.
C3_Original ==
    \A c \in DOMAIN calls :
        LET k == calls[c]
        IN  Answered(k)
            => IF k.reply.StatusCode \in {200, 201, 204}
               THEN Succeeded(k)
               ELSE /\ k.ret.resp = NilResponse
                    /\ StructuredWithStatus(k.ret.err, k.reply.StatusCode)

\* The statuses that are a success, by operation.
SuccessStatuses(op) ==
    CASE op \in {"CreateConfigurationVersionClone"} -> {200, 201}
      [] op \in {"RemoveConfigurationVersionClone"} -> {200, 204}
      [] op \in {"CreateIncludeVersion"} -> {201}
      [] OTHER -> {200}

\* C3 amended: a response is a success exactly when its status is among
\* those the operation accepts, which are 200, 201 or 204 but not all
\* three for any operation; every other response is returned with a nil
\* response as a structured error that carries the response's status,
\* but for the 404 of SearchProperties, which is ErrNotFound.
C3_StatusToOutcome ==
    \A c \in DOMAIN calls :
        LET k == calls[c]
        IN  Answered(k)
            => IF k.reply.StatusCode \in SuccessStatuses(k.op)
               THEN Succeeded(k)
               ELSE FailedStructured(k)

C3_Witness ==
    \E c \in DOMAIN calls :
        /\ Answered(calls[c])
        /\ calls[c].op = "GetConfigurationVersionClone"
        /\ calls[c].reply.StatusCode = StatusCreated
        /\ calls[c].ret.resp = NilResponse
        /\ StructuredWithStatus(calls[c].ret.err, StatusCreated)

\* The status field of a decoded error.
StatusField(err) ==
    IF err[1].kind = "ivm" THEN err[1].i.Status ELSE err[1].e.StatusCode

\* C4: the error an error decoder (of papi, of ivm) makes of a response
\* carries the status code of that response in its status field, whatever
\* the body is.
C4_DecodedErrorCarriesStatus ==
    dec.phase = "done" => StatusField(dec.err) = dec.r.StatusCode

\* C5: a call invokes Exec at most once; when Exec fails or the status is
\* not accepted the call returns a nil response and an error, having
\* called Exec once.
C5_NoRetryNoRecovery ==
    \A c \in DOMAIN calls :
        LET k == calls[c]
        IN  /\ k.execs <= 1
            /\ (/\ k.pc = "done"
                /\ k.execs >= 1
                /\ (k.reply.err # NoError \/ k.reply.StatusCode \notin SuccessStatuses(k.op)))
               => /\ k.execs = 1
                  /\ k.ret.resp = NilResponse
                  /\ k.ret.err # NoError

C5_Witness ==
    \E c \in DOMAIN calls :
        /\ calls[c].pc = "done"
        /\ calls[c].reply.err # NoError
        /\ calls[c].execs = 1
        /\ calls[c].ret.err # NoError

\* What the call of op returns when it runs alone, for the request and the
\* reply of the transport.
Alone(op, req, reply) ==
    IF Validate(op, req) # NoError THEN ValidationFailure(op, Validate(op, req))
    ELSE IF ~URLParses(req.IncludeID) THEN Returned(NilResponse, BuildError(op))
    ELSE IF reply.err # NoError THEN ExecFailure(op, reply.err)
    ELSE CheckStatus(op, reply).ret

\* C6: with two goroutines calling operations on one client, every call
\* returns what it returns alone for its request and its reply; no step
\* writes the client, and a step of one call leaves the other call as it
\* was.
C6_ConcurrentCallsIndependent ==
    /\ [](\A c \in DOMAIN calls :
            calls[c].pc = "done"
            => calls[c].ret = Alone(calls[c].op, calls[c].req, calls[c].reply))
    /\ [][/\ client' = client
          /\ \A c \in DOMAIN calls :
                calls'[c] # calls[c]
                => \A d \in DOMAIN calls \ {c} : calls'[d] = calls[d]]_vars

C6_Witness ==
    \E c \in DOMAIN calls :
        \E d \in DOMAIN calls \ {c} :
            /\ Answered(calls[c])
            /\ calls[d].pc = "status"
            /\ calls[d].reply.StatusCode # calls[c].reply.StatusCode
            /\ calls[c].ret = Alone(calls[c].op, calls[c].req, calls[c].reply)

\* C7: e.Is(target) for a target that is ErrDefaultCertLimitReached or
\* wraps it is true exactly when e.StatusCode is 429, e.LimitKey is
\* DEFAULT_CERTS_PER_CONTRACT and e.Remaining is not nil and points to 0;
\* with a nil Remaining it is false.
C7_IsDefaultCertLimitReached ==
    (/\ cmp.phase = "done"
     /\ cmp.target \in {ErrDefaultCertLimitReached, Wrapped(ErrDefaultCertLimitReached)})
    => LET e == cmp.e[1].e
       IN  /\ cmp.result = (/\ e.StatusCode = 429
                            /\ e.LimitKey = "DEFAULT_CERTS_PER_CONTRACT"
                            /\ e.Remaining = PtrTo(0))
           /\ e.Remaining = NilInt => cmp.result = FALSE

C7_Witness ==
    /\ cmp.phase = "done"
    /\ cmp.target = Wrapped(ErrDefaultCertLimitReached)
    /\ cmp.e[1].e.Remaining = PtrTo(0)
    /\ cmp.result = TRUE

\* C8: e.Is(target) for a target that is ErrSBDNotEnabled or wraps it is
\* true exactly when e.StatusCode is 403 and e.Type is the problem URL of
\* default-cert-provisioning-unavailable, whatever the other fields hold;
\* it is the first test Is makes, and the only one when it applies.
C8_IsSBDNotEnabled ==
    cmp.phase = "done"
    => /\ cmp.tests[1] = "sbd"
       /\ cmp.target \in {ErrSBDNotEnabled, Wrapped(ErrSBDNotEnabled)}
          => /\ cmp.result = (/\ cmp.e[1].e.StatusCode = 403
                              /\ cmp.e[1].e.Type = SBDType)
             /\ cmp.tests = <<"sbd">>

C8_Witness ==
    /\ cmp.phase = "done"
    /\ cmp.target = ErrSBDNotEnabled
    /\ cmp.e[1].e.LimitKey = DefaultCertsLimitKey
    /\ cmp.e[1].e.Remaining = PtrTo(0)
    /\ cmp.e[1].e.Title # ""
    /\ cmp.result = TRUE

\* C9: whenever an include-version operation returns an error, on any
\* failure path, errors.Is(err, sentinel) holds for the operation's own
\* sentinel.
C9_EveryFailureIsTheSentinel ==
    \A c \in DOMAIN calls :
        LET k == calls[c]
        IN  (k.pc = "done" /\ k.op \in IncludeVersionOps /\ k.ret.err # NoError)
            => ErrorsIs(k.ret.err, OpSentinel(k.op))

\* The papi.Error with the members of the body and the given status.
ErrorOf(body, status) ==
    [ZeroError EXCEPT !.Type = body.type, !.Title = body.title, !.Detail = body.detail,
                      !.Instance = body.instance, !.StatusCode = status]

\* The errors that differ from x in the status or in one of the members.
Differing(x) ==
    {[x EXCEPT !.StatusCode = s] : s \in Statuses \ {x.StatusCode}}
    \cup {[x EXCEPT !.Type = "another type"], [x EXCEPT !.Title = "another title"],
          [x EXCEPT !.Detail = "another detail"], [x EXCEPT !.Instance = "/another"]}

\* Whether the call went to the papi decoder with a JSON body that has the
\* members type, title and detail.
ProblemDecoded(k) ==
    /\ k.pc = "done"
    /\ k.op \in IncludeVersionOps
    /\ Did(k, "decode")
    /\ k.reply.body.kind = "json"
    /\ k.reply.body.bad = ""
    /\ ~k.reply.body.statusCode.set
    /\ k.reply.body.type # ""

\* C10: the error a papi operation returns for a non-success response with
\* a body {type, title, detail, instance} satisfies errors.Is(err, x) for
\* the papi.Error x of these members and the response's status, and does
\* not satisfy it for an x that differs in the status or in a member.
C10_ReturnedErrorIsTheProblem ==
    \A c \in DOMAIN calls :
        LET k == calls[c]
            x == ErrorOf(k.reply.body, k.reply.StatusCode)
        IN  ProblemDecoded(k)
            => /\ ErrorsIs(k.ret.err, PapiErr(x, 2))
               /\ \A y \in Differing(x) : ~ErrorsIs(k.ret.err, PapiErr(y, 2))

\* Whether the call returned a nil response and an error that wraps the
\* ErrStructValidation of package papi, with nothing built and nothing sent.
RejectedUnsent(k) ==
    /\ k.pc = "done"
    /\ k.ret.resp = NilResponse
    /\ ErrorsIs(k.ret.err, ErrStructValidation)
    /\ k.execs = 0
    /\ ~Did(k, "exec")
    /\ k.httpreq = NoRequest

ActivatingOps == {"ActivateInclude", "DeactivateInclude"}

\* C11: once an ActivateInclude or DeactivateInclude call is past its
\* validation, it has been rejected with an error wrapping
\* ErrStructValidation and nothing sent if IncludeID is empty, Version is
\* zero, Network is empty or NotifyEmails is empty, and it has gone on to
\* building its request if all four are present.
C11_ActivationValidation ==
    \A c \in DOMAIN calls :
        LET k == calls[c]
        IN  (k.op \in ActivatingOps /\ k.pc \notin {"idle", "validate"})
            => IF \/ k.req.IncludeID = ""
                  \/ k.req.Version = 0
                  \/ k.req.Network = ""
                  \/ Len(k.req.NotifyEmails) = 0
               THEN RejectedUnsent(k)
               ELSE /\ k.pc = "build" \/ Did(k, "build")
                    /\ ~ErrorsIs(k.ret.err, ErrStructValidation)

C11_Witness ==
    \E c \in DOMAIN calls :
        LET k == calls[c]
        IN  /\ k.op = "DeactivateInclude"
            /\ k.req.IncludeID # "" /\ k.req.Version # 0 /\ k.req.Network # ""
            /\ k.req.NotifyEmails = <<>>
            /\ RejectedUnsent(k)

\* C12: every request ActivateInclude or DeactivateInclude hands to Exec
\* is a POST to /papi/v1/includes/{IncludeID}/activations whose body has
\* activationType ACTIVATE (DEACTIVATE for DeactivateInclude),
\* ignoreHttpErrors as the caller set it and true when the caller left it
\* unset, acknowledgeAllWarnings as the caller set it, and no member that
\* holds the IncludeID.
C12_ActivationRequestBody ==
    \A c \in DOMAIN calls :
        LET k == calls[c]
            b == k.httpreq.payload
        IN  (k.op \in ActivatingOps /\ k.pc \in {"wait", "status", "done"} /\ Did(k, "exec"))
            => /\ k.httpreq.method = "POST"
               /\ k.httpreq.path = "/papi/v1/includes/%s/activations"
               /\ k.httpreq.IncludeID = k.req.IncludeID
               /\ k.httpreq.rawQuery = <<>>
               /\ b.set
               /\ b.activationType = IF k.op = "ActivateInclude" THEN "ACTIVATE"
                                     ELSE "DEACTIVATE"
               /\ b.ignoreHttpErrors.set
               /\ b.ignoreHttpErrors.v = IF k.req.IgnoreHTTPErrors.set
                                         THEN k.req.IgnoreHTTPErrors.v ELSE TRUE
               /\ b.acknowledgeAllWarnings = k.req.AcknowledgeAllWarnings
               /\ b.members \cap {"includeId", "IncludeID"} = {}
               /\ {"activationType", "ignoreHttpErrors", "acknowledgeAllWarnings"}
                     \subseteq b.members

C12_Witness ==
    \E c \in DOMAIN calls :
        LET k == calls[c]
        IN  /\ k.op = "DeactivateInclude"
            /\ k.pc = "wait"
            /\ ~k.req.IgnoreHTTPErrors.set
            /\ ~k.req.AcknowledgeAllWarnings
            /\ k.httpreq.payload.ignoreHttpErrors = BoolPtr(TRUE)
            /\ k.httpreq.payload.activationType = "DEACTIVATE"

\* C13: an ActivateInclude or DeactivateInclude call that Exec answered
\* with 201 returns, without error, a response whose ActivationLink is the
\* activationLink of the body and whose ActivationID is the last piece of
\* the path of that link.
C13_ActivationLinkAndID ==
    \A c \in DOMAIN calls :
        LET k == calls[c]
            link == k.reply.body.activationLink
        IN  (k.op \in ActivatingOps /\ Answered(k) /\ k.reply.StatusCode = 201)
            => /\ k.ret.err = NoError
               /\ ~k.ret.resp.nil
               /\ k.ret.resp.ActivationLink = link
               /\ k.ret.resp.ActivationID = link.segments[Len(link.segments)]

C13_Witness ==
    \E c \in DOMAIN calls :
        LET k == calls[c]
        IN  /\ k.op = "ActivateInclude"
            /\ Answered(k)
            /\ k.reply.StatusCode = 201
            /\ k.reply.body.activationLink = TemporaryActivationLink
            /\ k.ret.resp.ActivationID = "temporary-activation-id"

\* C14: every request GetIncludeActivation hands to Exec is a GET of
\* /papi/v1/includes/{IncludeID}/activations/{ActivationID}, every request
\* ListIncludeActivations hands to Exec is a GET of
\* /papi/v1/includes/{IncludeID}/activations with the query contractId,
\* groupId in this order, and a call of either with one of its identifiers
\* empty is rejected with an error wrapping ErrStructValidation and
\* nothing sent.
C14_GetAndListActivations ==
    \A c \in DOMAIN calls :
        LET k == calls[c]
        IN  /\ (k.op = "GetIncludeActivation" /\ Did(k, "exec"))
               => /\ k.httpreq.method = "GET"
                  /\ k.httpreq.path = "/papi/v1/includes/%s/activations/%s"
                  /\ k.httpreq.IncludeID = k.req.IncludeID
                  /\ k.httpreq.ActivationID = k.req.ActivationID
                  /\ k.httpreq.rawQuery = <<>>
            /\ (k.op = "ListIncludeActivations" /\ Did(k, "exec"))
               => /\ k.httpreq.method = "GET"
                  /\ k.httpreq.path = "/papi/v1/includes/%s/activations"
                  /\ k.httpreq.IncludeID = k.req.IncludeID
                  /\ k.httpreq.rawQuery = <<<<"contractId", k.req.ContractID>>,
                                            <<"groupId", k.req.GroupID>>>>
            /\ (/\ k.op = "GetIncludeActivation"
                /\ k.pc \notin {"idle", "validate"}
                /\ (k.req.IncludeID = "" \/ k.req.ActivationID = ""))
               => RejectedUnsent(k)
            /\ (/\ k.op = "ListIncludeActivations"
                /\ k.pc \notin {"idle", "validate"}
                /\ (k.req.IncludeID = "" \/ k.req.ContractID = "" \/ k.req.GroupID = ""))
               => RejectedUnsent(k)

C14_Witness ==
    \E c \in DOMAIN calls :
        LET k == calls[c]
        IN  /\ k.op = "ListIncludeActivations"
            /\ k.pc = "wait"
            /\ k.httpreq.rawQuery = <<<<"contractId", "ctr_1">>, <<"groupId", "grp_2">>>>

\* C15: once a SearchProperties call is past its validation, it has gone
\* on to building its request if its key is "edgeHostname", "hostname" or
\* "propertyName" and its value is not empty, and it has returned a nil
\* response and an error wrapping ErrStructValidation, with nothing sent,
\* for every other key (the empty one included) and for an empty value.
C15_SearchRequestValidate ==
    \A c \in DOMAIN calls :
        LET k == calls[c]
        IN  (k.op = "SearchProperties" /\ k.pc \notin {"idle", "validate"})
            => IF /\ k.req.key \in {"edgeHostname", "hostname", "propertyName"}
                  /\ k.req.value # ""
               THEN /\ k.pc = "build" \/ Did(k, "build")
                    /\ ~ErrorsIs(k.ret.err, ErrStructValidation)
               ELSE RejectedUnsent(k)

C15_Witness ==
    \E c \in DOMAIN calls :
        LET k == calls[c]
        IN  /\ k.op = "SearchProperties"
            /\ k.req.key = "propertyId"
            /\ k.req.value = "www.example.com"
            /\ RejectedUnsent(k)

\* Whether the call returned a nil response and an error that wraps the
\* ErrStructValidation of package appsec, with nothing built and nothing
\* sent.
appsecRejectedUnsent(k) ==
    /\ k.pc = "done"
    /\ k.ret.resp = NilResponse
    /\ ErrorsIs(k.ret.err, appsecErrStructValidation)
    /\ k.execs = 0
    /\ ~Did(k, "exec")
    /\ k.httpreq = NoRequest

\* C19: once a call of an appsec clone operation is past its validation,
\* it has gone on to building its request if ConfigID is not 0 and Version
\* (CreateFromVersion for CreateConfigurationVersionClone) is not 0, and it
\* has been rejected with nothing sent otherwise; the request handed to
\* Exec holds the caller's ConfigID and Version in its URL as they are,
\* negative ones too, and never 0.
C19_AppsecZeroTest ==
    \A c \in DOMAIN calls :
        LET k == calls[c]
            version == IF k.op = "CreateConfigurationVersionClone"
                       THEN k.req.CreateFromVersion ELSE k.req.Version
        IN  (k.op \in AppsecOps /\ k.pc \notin {"idle", "validate"})
            => IF k.req.ConfigID # 0 /\ version # 0
               THEN /\ k.pc = "build" \/ Did(k, "build")
                    /\ ~ErrorsIs(k.ret.err, appsecErrStructValidation)
                    /\ Did(k, "exec")
                       => /\ k.httpreq.ConfigID = k.req.ConfigID
                          /\ k.httpreq.ConfigID # 0
                          /\ k.op # "CreateConfigurationVersionClone"
                             => /\ k.httpreq.Version = k.req.Version
                                /\ k.httpreq.Version # 0
               ELSE appsecRejectedUnsent(k)

C19_Witness ==
    \E c \in DOMAIN calls :
        LET k == calls[c]
        IN  /\ k.op = "RemoveConfigurationVersionClone"
            /\ k.pc = "wait"
            /\ k.req.ConfigID = -1
            /\ k.req.Version = -1
            /\ k.httpreq.path = "/appsec/v1/configs/%d/versions/%d"
            /\ k.httpreq.ConfigID = -1
            /\ k.httpreq.Version = -1

\* C20: once a call of an include-version operation is past its
\* validation, it has gone on to building its request exactly when the
\* fields its request validates are present, and has been rejected with
\* nothing sent otherwise: IncludeID and CreateFromVersion for
\* CreateIncludeVersion (CreateFromVersionEtag may be empty); IncludeID,
\* ContractID, GroupID and Version for GetIncludeVersion; IncludeID,
\* ContractID and GroupID for ListIncludeVersions; IncludeID and Version
\* for the two ListIncludeVersionAvailable operations.
C20_IncludeVersionValidation ==
    \A c \in DOMAIN calls :
        LET k == calls[c]
            r == k.req
            passes ==
                CASE k.op = "CreateIncludeVersion" ->
                        r.IncludeID # "" /\ r.CreateFromVersion # 0
                  [] k.op = "GetIncludeVersion" ->
                        /\ r.IncludeID # "" /\ r.ContractID # "" /\ r.GroupID # ""
                        /\ r.Version # 0
                  [] k.op = "ListIncludeVersions" ->
                        r.IncludeID # "" /\ r.ContractID # "" /\ r.GroupID # ""
                  [] OTHER ->
                        r.IncludeID # "" /\ r.Version # 0
        IN  (k.op \in IncludeVersionOps /\ k.pc \notin {"idle", "validate"})
            => IF passes
               THEN /\ k.pc = "build" \/ Did(k, "build")
                    /\ ~ErrorsIs(k.ret.err, ErrStructValidation)
               ELSE RejectedUnsent(k)

C20_Witness ==
    \E c \in DOMAIN calls :
        LET k == calls[c]
        IN  /\ k.op = "CreateIncludeVersion"
            /\ k.req.IncludeID = "inc_12345"
            /\ k.req.CreateFromVersion = -1
            /\ k.req.CreateFromVersionEtag = ""
            /\ k.pc = "wait"

StepOrder == <<"validate", "build", "exec", "status", "decode">>

\* C16: the steps a call has made are a beginning of validate, build,
\* Exec, status check, error decoder, in this order; the error decoder has
\* run only in a call whose request passed validation, to which Exec
\* returned a response and no error, and whose status the operation does
\* not accept; it has not run in a call that returns a response.
C16_StepOrderAndDecoder ==
    \A c \in DOMAIN calls :
        LET k == calls[c]
        IN  /\ Len(k.steps) <= Len(StepOrder)
            /\ \A n \in 1..Len(k.steps) : k.steps[n] = StepOrder[n]
            /\ Did(k, "decode")
               => /\ FailedFields(k.op, k.req) = {}
                  /\ k.execs = 1
                  /\ k.reply.err = NoError
                  /\ k.reply.StatusCode \notin SuccessStatuses(k.op)
                  /\ k.ret.resp = NilResponse
                  /\ k.ret.err # NoError
            /\ (k.pc = "done" /\ k.reply.err # NoError) => ~Did(k, "decode")
            /\ (k.pc = "done" /\ k.ret.err = NoError) => ~Did(k, "decode")

C16_Witness ==
    \E c \in DOMAIN calls :
        LET k == calls[c]
        IN  /\ k.pc = "done"
            /\ k.op = "ListIncludeVersionAvailableCriteria"
            /\ k.steps = StepOrder
            /\ k.reply.StatusCode = 500

\* C17: two calls that have ended, of the same operation with equal
\* requests and to which the transport gave equal replies (or none, when
\* they did not reach it), have returned the same response and the same
\* error, whatever calls each goroutine made and collected before.
C17_OutcomeIgnoresHistory ==
    \A c, d \in DOMAIN calls :
        LET k == calls[c]
            j == calls[d]
        IN  (/\ k.pc = "done" /\ j.pc = "done"
             /\ k.op = j.op
             /\ k.req = j.req
             /\ k.reply = j.reply)
            => k.ret = j.ret

C17_Witness ==
    \E c, d \in DOMAIN calls :
        LET k == calls[c]
            j == calls[d]
        IN  /\ c # d
            /\ k.pc = "done" /\ j.pc = "done"
            /\ k.op = "GetConfigurationVersionClone" /\ j.op = k.op
            /\ k.req = j.req
            /\ k.reply = j.reply
            /\ k.reply.StatusCode = 201
            /\ k.ret.err # NoError
            /\ k.ret = j.ret

\* C18: the request a call has built carries the context the caller gave
\* to that call, and a call that has ended with a request that passes
\* validation and a URI that parses has called Exec exactly once, also
\* when its context was already cancelled: it returns an error when the
\* transport returned one and goes by the status of the response
\* otherwise.
C18_ContextOnlyPropagated ==
    \A c \in DOMAIN calls :
        LET k == calls[c]
        IN  /\ k.httpreq # NoRequest
               => k.httpreq.ctx = k.ctx /\ k.ctx \in Contexts
            /\ (/\ k.pc = "done"
                /\ FailedFields(k.op, k.req) = {}
                /\ URLParses(k.req.IncludeID))
               => /\ k.execs = 1
                  /\ Did(k, "exec")
                  /\ k.reply.err # NoError
                     => k.ret.resp = NilResponse /\ k.ret.err # NoError
                  /\ k.reply.err = NoError
                     => /\ Did(k, "status")
                        /\ k.ret.err = NoError
                           <=> k.reply.StatusCode \in SuccessStatuses(k.op)

C18_Witness ==
    \E c \in DOMAIN calls :
        LET k == calls[c]
        IN  /\ k.ctx = "done"
            /\ k.pc = "done"
            /\ k.op = "GetIncludeVersion"
            /\ k.httpreq.ctx = "done"
            /\ k.execs = 1
            /\ k.reply.StatusCode = 200
            /\ k.ret.err = NoError

\* C21: the error the decoder of papi makes of a response has the HTTP
\* status of the response as its StatusCode, whatever the body holds in
\* statusCode or in status and whether the body can be read and decoded
\* or not; when the body decodes, Type, Title and Detail are those of the
\* body.
C21_PapiStatusCodeIsHTTPStatus ==
    (dec.phase = "done" /\ dec.decoder = "papi.Error")
    => /\ dec.err[1].kind = "papi"
       /\ dec.err[1].e.StatusCode = dec.r.StatusCode
       /\ (dec.r.body.kind = "json" /\ dec.r.body.bad # "statusCode")
          => /\ dec.err[1].e.Type = dec.r.body.type
             /\ dec.err[1].e.Title = dec.r.body.title
             /\ dec.err[1].e.Detail = dec.r.body.detail

C21_Witness ==
    /\ dec.phase = "done"
    /\ dec.decoder = "papi.Error"
    /\ dec.r.StatusCode = 500
    /\ dec.r.body = OtherStatusBody
    /\ dec.r.body.statusCode = PtrTo(400)
    /\ dec.err[1].e.StatusCode = 500
    /\ dec.err[1].e.Type = "bad_request"

\* The success statuses of each operation.
OwnStatuses(op) ==
    CASE op = "GetConfigurationVersionClone" -> {200}
      [] op = "CreateConfigurationVersionClone" -> {200, 201}
      [] op = "RemoveConfigurationVersionClone" -> {200, 204}
      [] op = "CreateIncludeVersion" -> {201}
      [] op = "GetIncludeVersion" -> {200}
      [] op = "ListIncludeVersions" -> {200}
      [] op = "ListIncludeVersionAvailableCriteria" -> {200}
      [] op = "ListIncludeVersionAvailableBehaviors" -> {200}
      [] op = "SearchProperties" -> {200}

\* C22: a call to which Exec gave a response returns without error exactly
\* when the status is in the operation's own set, and returns a nil
\* response and an error for every other status, 200, 201 and 204 outside
\* the operation's set included.
C22_OwnSuccessStatuses ==
    \A c \in DOMAIN calls :
        LET k == calls[c]
        IN  Answered(k)
            => /\ k.ret.err = NoError <=> k.reply.StatusCode \in OwnStatuses(k.op)
               /\ k.reply.StatusCode \notin OwnStatuses(k.op)
                  => k.ret.resp.nil /\ k.ret.err # NoError
               /\ k.reply.StatusCode \in OwnStatuses(k.op)
                  => ~k.ret.resp.nil

C22_Witness ==
    \E c \in DOMAIN calls :
        LET k == calls[c]
        IN  /\ Answered(k)
            /\ k.op = "CreateIncludeVersion"
            /\ k.reply.StatusCode = 200
            /\ k.ret.resp.nil
            /\ k.ret.err # NoError

\* Whether the chain holds a structured API error.
HasAPIError(err) ==
    \E n \in 1..Len(err) : err[n].kind \in {"api", "papi", "ivm"}

\* C23: a SearchProperties call answered with 404 returns an error that
\* wraps ErrNotFound and names the search URL and holds no structured API
\* error; one answered with another status that is not 200 returns the
\* API error of package session, which is not ErrNotFound; no returned
\* error is both.
C23_SearchNotFound ==
    \A c \in DOMAIN calls :
        LET k == calls[c]
        IN  (k.op = "SearchProperties" /\ Answered(k))
            => /\ k.reply.StatusCode = 404
                  => /\ k.ret.resp = NilResponse
                     /\ ErrorsIs(k.ret.err, ErrNotFound)
                     /\ ~HasAPIError(k.ret.err)
                     /\ k.ret.err[1].msg[Len(k.ret.err[1].msg)]
                            = "/papi/v1/search/find-by-value"
                     /\ ~Did(k, "decode")
               /\ k.reply.StatusCode \notin {200, 404}
                  => /\ k.ret.resp = NilResponse
                     /\ k.ret.err[1].kind = "api"
                     /\ k.ret.err[1].name = "session.APIError"
                     /\ k.ret.err[1].e.StatusCode = k.reply.StatusCode
                     /\ ~ErrorsIs(k.ret.err, ErrNotFound)
               /\ ~(ErrorsIs(k.ret.err, ErrNotFound) /\ HasAPIError(k.ret.err))

C23_Witness ==
    \E c \in DOMAIN calls :
        LET k == calls[c]
        IN  /\ k.op = "SearchProperties"
            /\ Answered(k)
            /\ k.reply.StatusCode = 404
            /\ k.reply.body = InternalErrorBody
            /\ ErrorsIs(k.ret.err, ErrNotFound)

\* C24: a call that has ended has returned a nil response with an error
\* that is not nil, or a response that is not nil with a nil error, never
\* both nil and never both set; the first on a failed validation, a request
\* that could not be built, an Exec error and a status that is not
\* accepted (where the error holds what the decoder returned), the second
\* on an accepted status.
C24_ExactlyOneOfResponseAndError ==
    \A c \in DOMAIN calls :
        LET k == calls[c]
            failure == \/ FailedFields(k.op, k.req) # {}
                       \/ ~URLParses(k.req.IncludeID)
                       \/ k.reply.err # NoError
                       \/ k.reply.StatusCode \notin OwnStatuses(k.op)
        IN  k.pc = "done"
            => /\ k.ret.resp.nil <=> k.ret.err # NoError
               /\ failure <=> k.ret.resp.nil
               /\ Did(k, "decode") => HasAPIError(k.ret.err)

C24_Witness ==
    \E c \in DOMAIN calls :
        LET k == calls[c]
        IN  /\ k.pc = "done"
            /\ k.op = "RemoveConfigurationVersionClone"
            /\ k.reply.err # NoError
            /\ k.ret.resp.nil
            /\ k.ret.err # NoError

\* Whether the target of the comparison is a papi.Error itself, not a
\* sentinel and not a wrapper.
StructuredTarget == Len(cmp.target) = 1 /\ cmp.target[1].kind = "papi"

\* C25: for a papi.Error e and a target t that is a papi.Error, e.Is(t) is
\* true exactly when e and t are the same value, or have equal StatusCode
\* and equal Type, Title, Detail, Instance, BehaviorName, ErrorLocation,
\* Errors, Warnings, LimitKey, Limit and Remaining.
C25_IsOnStructuredTarget ==
    (cmp.phase = "done" /\ StructuredTarget)
    => (cmp.result
        <=> \/ cmp.e[1].addr = cmp.target[1].addr
            \/ cmp.e[1].e = cmp.target[1].e)

C27_IvmIs ==
    (cmp.phase = "done" /\ cmp.e[1].kind = "ivm")
    => LET at == {n \in 1..Len(cmp.target) : cmp.target[n].kind = "ivm"}
       IN  IF at = {}
           THEN ~cmp.result
           ELSE LET first == CHOOSE n \in at : \A m \in at : n <= m
                    t == cmp.target[first]
                IN  cmp.result
                    <=> \/ t.addr = cmp.e[1].addr
                        \/ t.i.Status = cmp.e[1].i.Status /\ t.i = cmp.e[1].i

C27_Witness ==
    /\ cmp.phase = "done"
    /\ cmp.e[1].kind = "ivm"
    /\ Len(cmp.target) = 2
    /\ cmp.target[1].kind = "wrap"
    /\ cmp.target[2].kind = "ivm"
    /\ cmp.target[2].addr # cmp.e[1].addr
    /\ cmp.target[2].i = cmp.e[1].i
    /\ cmp.e[1].i.Status = 0
    /\ cmp.result

\* The body handed to the decoder of ivm could not be read; is not JSON, or
\* is JSON whose status member is not a number; is JSON that ivm.Error
\* takes.
IvmBodyUnreadable == dec.r.body.kind = "unreadable"
IvmBodyInvalid ==
    \/ dec.r.body.kind \notin {"unreadable", "json"}
    \/ dec.r.body.kind = "json" /\ dec.r.body.bad = "status"
IvmBodyValid == dec.r.body.kind = "json" /\ dec.r.body.bad # "status"

\* What the decoder of ivm gives in the cases that do not depend on the
\* kind of invalid body.
IvmDecoderCommon(i) ==
    /\ IvmBodyUnreadable
       => /\ i.Status = dec.r.StatusCode
          /\ i.Title = "Failed to read error body"
          /\ i.Detail = ReadErrorText
    /\ IvmBodyInvalid
       => /\ i.Status = dec.r.StatusCode
          /\ i.Title = dec.r.body.raw
    /\ IvmBodyValid
       => i.Status = IF dec.r.body.status.set THEN dec.r.body.status.v ELSE 0

\* C28 as stated: the decoder of ivm takes Status from the HTTP response
\* only for a body that is unreadable or not valid JSON for ivm.Error; for
\* the unreadable body Title and Detail tell of the read failure; for the
\* invalid body Title is the raw body and Detail is empty; for a valid body
\* Status is the body's status, 0 when it has none.
C28_AsStated ==
    (dec.phase = "done" /\ dec.decoder = "ivm.Error")
    => /\ dec.err[1].kind = "ivm"
       /\ IvmDecoderCommon(dec.err[1].i)
       /\ IvmBodyInvalid => dec.err[1].i.Detail = ""

\* C28: as above, but for the invalid body Detail is empty only when the
\* body is not JSON at all; when the body is JSON whose status member has
\* the wrong type, the other members have been decoded and Detail is the
\* body's detail.
C28_IvmDecoder ==
    (dec.phase = "done" /\ dec.decoder = "ivm.Error")
    => /\ dec.err[1].kind = "ivm"
       /\ IvmDecoderCommon(dec.err[1].i)
       /\ IvmBodyInvalid
          => dec.err[1].i.Detail = IF dec.r.body.kind = "json"
                                   THEN dec.r.body.detail ELSE ""

C28_Witness ==
    /\ dec.phase = "done"
    /\ dec.decoder = "ivm.Error"
    /\ dec.r.body = BadStatusBody
    /\ dec.r.StatusCode = StatusInternalServerError
    /\ dec.err[1].i.Status = StatusInternalServerError
    /\ dec.err[1].i.Title = BadStatusBody.raw
    /\ dec.err[1].i.Detail = "wrong"

\* C29: the decoder of papi always gives an Error value; for a body that
\* could not be read it has the title "Failed to read error body", the read
\* error as Detail, the HTTP status as StatusCode and nothing decoded from
\* the body; for a body that is not valid JSON for papi.Error it has the
\* title "Failed to unmarshal error body", the decode error as Detail and
\* the HTTP status as StatusCode.
C29_PapiDecoderNeverNil ==
    (dec.phase = "done" /\ dec.decoder = "papi.Error")
    => /\ dec.err # NoError
       /\ Len(dec.err) = 1
       /\ dec.err[1].kind = "papi"
       /\ dec.r.body.kind = "unreadable"
          => dec.err[1].e = [ZeroError EXCEPT !.Title = "Failed to read error body",
                                              !.Detail = ReadErrorText,
                                              !.StatusCode = dec.r.StatusCode]
       /\ dec.r.body.kind \notin {"unreadable", "json"}
          => /\ dec.err[1].e.Title = "Failed to unmarshal error body"
             /\ dec.err[1].e.Detail = SyntaxErrorText
             /\ dec.err[1].e.StatusCode = dec.r.StatusCode
       /\ (dec.r.body.kind = "json" /\ dec.r.body.bad = "statusCode")
          => /\ dec.err[1].e.Title = "Failed to unmarshal error body"
             /\ dec.err[1].e.Detail = TypeErrorText
             /\ dec.err[1].e.StatusCode = dec.r.StatusCode

C29_Witness ==
    /\ dec.phase = "done"
    /\ dec.decoder = "papi.Error"
    /\ dec.r.body.kind \notin {"unreadable", "json"}
    /\ dec.r.StatusCode = StatusInternalServerError
    /\ dec.err[1].e.Title = "Failed to unmarshal error body"
    /\ dec.err[1].e.Detail = SyntaxErrorText
    /\ dec.err[1].e.StatusCode = StatusInternalServerError

====
